---- MODULE Spec2Model ----
(***************************************************************************)
(* Storage manager of the chrome-chat-sidebar extension                    *)
(* (src/chrome-chat-sidebar/background.js): sessions, backups, quota       *)
(* cleanup and paginated retrieval over the flat chrome.storage.local      *)
(* key-value namespace.                                                    *)
(*                                                                         *)
(* Keys are modelled by their prefix and the list of their '_'-separated   *)
(* parts.  A generated session id 'session_<ts>_<rand>' is the part list   *)
(* <<SessionWord, ts, rand>>.  JavaScript values that the validators       *)
(* inspect are tagged records [t, len, v].                                 *)
(***************************************************************************)
EXTENDS Integers, Sequences, FiniteSets, TLC

VARIABLES
    storage,     \* chrome.storage.local: key -> value
    now,         \* the value Date.now() returns
    nextRand,    \* source of the random suffixes of generated ids
    procs,       \* the saveMessage handlers in flight, one record per handler slot
    opCount,     \* number of requests accepted so far
    lastPage,    \* the last getMessages response
    callLog,     \* ids of the messages whose save responded success, in response order
    restored,    \* the last restoreSessionFromBackup result
    backupCalls, \* the createSessionBackup calls made directly, in call order
    candidate,   \* the value handed to validateMessageData
    verdict,     \* what validateMessageData returned for it
    evicted,     \* the sessions the last direct cleanupOldSessions call removed
    lastCall,    \* the last direct call of a storage function: store before and after
    loggedKeys,  \* the keys of the error-log entries written directly, in call order
    browser      \* the browser around the service worker: its tabs and the tasks in flight

\* the variables that the request handlers leave alone
opVars == <<restored, backupCalls, candidate, verdict, evicted, lastCall,
           loggedKeys, browser>>

vars == <<storage, now, nextRand, procs, opCount, lastPage, callLog, opVars>>

-----------------------------------------------------------------------------
(* Bounds of the model *)

Epoch == 2000
MaxTicks == 1
MaxOps == 3

-----------------------------------------------------------------------------
(* JavaScript values *)

Undef == [t |-> "undefined", len |-> 0, v |-> 0]
Null == [t |-> "null", len |-> 0, v |-> 0]
NaN == [t |-> "nan", len |-> 0, v |-> 0]
Num(n) == [t |-> "number", len |-> 0, v |-> n]
Str(l, tag) == [t |-> "string", len |-> l, v |-> tag]

IsPrimitive(x) == "t" \in DOMAIN x

TypeOf(x) ==
    IF ~IsPrimitive(x) THEN "object"
    ELSE IF x.t = "null" THEN "object"
    ELSE IF x.t = "nan" THEN "number"
    ELSE x.t

Truthy(x) ==
    IF ~IsPrimitive(x) THEN TRUE
    ELSE CASE x.t = "undefined" -> FALSE
           [] x.t = "null" -> FALSE
           [] x.t = "nan" -> FALSE
           [] x.t = "string" -> x.len > 0
           [] x.t = "number" -> x.v # 0
           [] OTHER -> TRUE

\* property read: a property an object does not have reads as undefined
Field(obj, name) ==
    IF IsPrimitive(obj) THEN Undef
    ELSE IF name \in DOMAIN obj THEN obj[name] ELSE Undef

-----------------------------------------------------------------------------
(* validateMessageData *)

MAX_CONTENT_LENGTH == 10000

validateMessageData_OffByOne(message) ==
    IF ~Truthy(message) \/ TypeOf(message) # "object" THEN FALSE
    ELSE IF ~Truthy(Field(message, "id")) \/ ~Truthy(Field(message, "content"))
            \/ ~Truthy(Field(message, "timestamp")) THEN FALSE
    ELSE IF TypeOf(Field(message, "id")) # "string"
            \/ TypeOf(Field(message, "content")) # "string" THEN FALSE
    ELSE IF TypeOf(Field(message, "timestamp")) # "number"
            \/ Field(message, "timestamp").v <= 0 THEN FALSE
    ELSE IF Field(message, "content").len >= MAX_CONTENT_LENGTH THEN FALSE
    ELSE TRUE

validateMessageData(message) ==
    IF ~Truthy(message) \/ TypeOf(message) # "object" THEN FALSE
    ELSE IF ~Truthy(Field(message, "id")) \/ ~Truthy(Field(message, "content"))
            \/ ~Truthy(Field(message, "timestamp")) THEN FALSE
    ELSE IF TypeOf(Field(message, "id")) # "string"
            \/ TypeOf(Field(message, "content")) # "string" THEN FALSE
    ELSE IF TypeOf(Field(message, "timestamp")) # "number"
            \/ Field(message, "timestamp").v <= 0 THEN FALSE
    ELSE IF Field(message, "content").len > MAX_CONTENT_LENGTH THEN FALSE
    ELSE TRUE

-----------------------------------------------------------------------------
(* Keys of chrome.storage.local *)

SessionWord == 0

SessionKey(sessionId) == [p |-> "session", parts |-> sessionId]
BackupKey(sessionId, ts) == [p |-> "backup", parts |-> Append(sessionId, ts)]
ErrorKey(ts, rand) == [p |-> "error", parts |-> <<ts, rand>>]
CurrentSessionKey == [p |-> "currentSession", parts |-> <<>>]

\* 'session_' + Date.now() + '_' + random suffix
generateSessionId(t, rand) == <<SessionWord, t, rand>>

\* key.startsWith(`backup_${sessionId}_`)
StartsWithBackupPrefix(key, sessionId) ==
    /\ key.p = "backup"
    /\ Len(key.parts) > Len(sessionId)
    /\ SubSeq(key.parts, 1, Len(sessionId)) = sessionId

\* parseInt(parts[parts.length - 1]) || 0
extractTimestampFromBackupKey(key) ==
    IF Len(key.parts) = 0 THEN 0 ELSE key.parts[Len(key.parts)]

\* the order in which chrome.storage.local.get() lists keys of one prefix
RECURSIVE PartsLess(_, _)
PartsLess(a, b) ==
    IF Len(a) = 0 THEN Len(b) > 0
    ELSE IF Len(b) = 0 THEN FALSE
    ELSE IF Head(a) # Head(b) THEN Head(a) < Head(b)
    ELSE PartsLess(Tail(a), Tail(b))

KeyBefore(k1, k2) == PartsLess(k1.parts, k2.parts)

StorageSet(st, key, value) ==
    [k \in DOMAIN st \cup {key} |-> IF k = key THEN value ELSE st[k]]

StorageRemove(st, keys) == [k \in DOMAIN st \ keys |-> st[k]]

KeysWithPrefix(st, prefix) == {k \in DOMAIN st : k.p = prefix}

-----------------------------------------------------------------------------
(* Quota *)

\* 4.5 * 1024 * 1024
STORAGE_LIMIT == 4718592

RECURSIVE ContentBytes(_, _, _)
ContentBytes(messages, lo, hi) ==
    IF lo > hi THEN 0
    ELSE IF lo = hi THEN Field(messages[lo], "content").len
    ELSE LET mid == (lo + hi) \div 2
         IN ContentBytes(messages, lo, mid) + ContentBytes(messages, mid + 1, hi)

ValueBytes(key, value) ==
    IF key.p \in {"session", "backup"}
    THEN ContentBytes(value.messages, 1, Len(value.messages))
    ELSE 0

RECURSIVE SumBytes(_, _)
SumBytes(st, keys) ==
    IF keys = {} THEN 0
    ELSE LET k == CHOOSE x \in keys : TRUE
         IN ValueBytes(k, st[k]) + SumBytes(st, keys \ {k})

\* chrome.storage.local.getBytesInUse(): the stored message text dominates
getBytesInUse(st) == SumBytes(st, DOMAIN st)

\* checkStorageQuota(...).hasSpace
checkStorageQuota(st) == getBytesInUse(st) < STORAGE_LIMIT

-----------------------------------------------------------------------------
(* Error log *)

MAX_ERROR_LOGS == 50

cleanupErrorLogs(st) ==
    LET errorKeys == KeysWithPrefix(st, "error")
        n == Cardinality(errorKeys)
        rank(k) == Cardinality({j \in errorKeys : KeyBefore(j, k)})
    IN IF n > MAX_ERROR_LOGS
       THEN StorageRemove(st, {k \in errorKeys : rank(k) < n - MAX_ERROR_LOGS})
       ELSE st

logError(st, errorType, t, rand) ==
    cleanupErrorLogs(StorageSet(st, ErrorKey(t, rand), [type |-> errorType, timestamp |-> t]))

logErrorOutcome_NoCatch(st, errorType, t, rand, error, failure) ==
    [st |-> st, raised |-> error \in {Null, Undef} \/ failure # "none"]

\* logError with its failure paths.  error is the value handed in: reading
\* error.message throws for null and undefined.  failure names the storage
\* call that fails: "write" (the set of the entry), "prune" (the get or the
\* remove of cleanupErrorLogs) or "none".
logErrorOutcome(st, errorType, t, rand, error, failure) ==
    IF error \in {Null, Undef} \/ failure = "write"
    THEN \* catch (logError): printed only
         [st |-> st, raised |-> FALSE]
    ELSE IF failure = "prune"
    THEN \* the catch of cleanupErrorLogs: printed only
         [st |-> StorageSet(st, ErrorKey(t, rand), [type |-> errorType, timestamp |-> t]),
          raised |-> FALSE]
    ELSE [st |-> logError(st, errorType, t, rand), raised |-> FALSE]

-----------------------------------------------------------------------------
(* Backups *)

MAX_BACKUPS == 3

BackupsOf(st, sessionId) == {k \in DOMAIN st : StartsWithBackupPrefix(k, sessionId)}

\* position of a backup key after backups.sort((a, b) => b.timestamp - a.timestamp)
BackupRank(keys, k) ==
    Cardinality({j \in keys :
        \/ extractTimestampFromBackupKey(j) > extractTimestampFromBackupKey(k)
        \/ /\ extractTimestampFromBackupKey(j) = extractTimestampFromBackupKey(k)
           /\ KeyBefore(j, k)})

cleanupOldBackups(st, sessionId) ==
    LET backups == BackupsOf(st, sessionId)
    IN IF Cardinality(backups) > MAX_BACKUPS
       THEN StorageRemove(st, {k \in backups : BackupRank(backups, k) >= MAX_BACKUPS})
       ELSE st

\* msg => ({ id, content, timestamp, type })
CompressMessage(msg) ==
    [id |-> Field(msg, "id"), content |-> Field(msg, "content"),
     timestamp |-> Field(msg, "timestamp"), type |-> Field(msg, "type")]

createSessionBackup(st, sessionId, sessionData, t) ==
    LET compressedBackup ==
            [id |-> sessionId,
             messages |-> [i \in 1..Len(sessionData.messages) |->
                             CompressMessage(sessionData.messages[i])],
             createdAt |-> sessionData.createdAt,
             lastActivity |-> sessionData.lastActivity,
             backupCreatedAt |-> t,
             version |-> "1.0"]
    IN cleanupOldBackups(StorageSet(st, BackupKey(sessionId, t), compressedBackup), sessionId)

NoBackup == [found |-> FALSE]

restoreSessionFromBackup_Oldest(st, sessionId) ==
    LET backups == BackupsOf(st, sessionId)
    IN IF backups = {} THEN NoBackup
       ELSE LET last == CHOOSE k \in backups :
                            BackupRank(backups, k) = Cardinality(backups) - 1
            IN [found |-> TRUE, data |-> st[last]]

restoreSessionFromBackup(st, sessionId) ==
    LET backups == BackupsOf(st, sessionId)
    IN IF backups = {} THEN NoBackup
       ELSE LET mostRecent == CHOOSE k \in backups : BackupRank(backups, k) = 0
            IN [found |-> TRUE, data |-> st[mostRecent]]

-----------------------------------------------------------------------------
(* Sessions: validation and cleanup *)

MAX_MESSAGES_PER_SESSION == 1000
MAX_SESSIONS == 10
EMERGENCY_SESSIONS == 3
EMERGENCY_MESSAGES == 100
BACKUP_INTERVAL == 50

\* Math.floor(MAX_MESSAGES_PER_SESSION * 0.8)
messagesToKeep == (MAX_MESSAGES_PER_SESSION * 8) \div 10

\* Array.prototype.slice(-n)
SliceLast(seq, n) ==
    IF Len(seq) <= n THEN seq ELSE SubSeq(seq, Len(seq) - n + 1, Len(seq))

\* A session object is kept in one of two forms.  The form the program writes
\* has a part-list id, a sequence of messages and integer times.  A session
\* object of any other shape has a js field, and its fields are JavaScript
\* values (an array is JsArray).  The Js... operators read either form.
JsArray(items) == [t |-> "array", len |-> Len(items), v |-> 0, items |-> items]

CorruptSession(id, messages, createdAt, lastActivity) ==
    [js |-> TRUE, id |-> id, messages |-> messages, createdAt |-> createdAt,
     lastActivity |-> lastActivity]

IsWritten(x) == ~IsPrimitive(x) /\ "js" \notin DOMAIN x

JsId(x) ==
    IF IsPrimitive(x) THEN Undef
    ELSE IF IsWritten(x) THEN Str(Len(x.id), 0) ELSE Field(x, "id")

JsMessages(x) ==
    IF IsPrimitive(x) THEN Undef
    ELSE IF IsWritten(x) THEN JsArray(x.messages) ELSE Field(x, "messages")

JsCreatedAt(x) ==
    IF IsPrimitive(x) THEN Undef
    ELSE IF IsWritten(x) THEN Num(x.createdAt) ELSE Field(x, "createdAt")

JsLastActivity(x) ==
    IF IsPrimitive(x) THEN Undef
    ELSE IF IsWritten(x) THEN Num(x.lastActivity) ELSE Field(x, "lastActivity")

\* x.messages || [] for an x whose messages, when present, are an array
MessagesOf(x) ==
    IF Truthy(JsMessages(x)) /\ JsMessages(x).t = "array" THEN JsMessages(x).items ELSE <<>>

validateSessionData(sessionData) ==
    IF ~Truthy(sessionData) \/ TypeOf(sessionData) # "object" THEN FALSE
    ELSE IF ~Truthy(JsId(sessionData)) \/ ~Truthy(JsMessages(sessionData))
            \/ JsMessages(sessionData).t # "array" THEN FALSE
    ELSE IF TypeOf(JsCreatedAt(sessionData)) # "number"
            \/ TypeOf(JsLastActivity(sessionData)) # "number" THEN FALSE
    ELSE \A i \in 1..Len(JsMessages(sessionData).items) :
            validateMessageData(JsMessages(sessionData).items[i])

\* sessions.sort((a, b) => a.lastActivity - b.lastActivity): number of entries
\* placed before key k
RankOldestFirst(st, keys, k) ==
    Cardinality({j \in keys :
        \/ st[j].lastActivity < st[k].lastActivity
        \/ st[j].lastActivity = st[k].lastActivity /\ KeyBefore(j, k)})

\* sessions.sort((a, b) => b.lastActivity - a.lastActivity)
RankNewestFirst(st, keys, k) ==
    Cardinality({j \in keys :
        \/ st[j].lastActivity > st[k].lastActivity
        \/ st[j].lastActivity = st[k].lastActivity /\ KeyBefore(j, k)})

\* the sessions are removed without a backup
cleanupOldSessions(st) ==
    LET sessions == {k \in KeysWithPrefix(st, "session") : st[k].lastActivity # 0}
        n == Cardinality(sessions)
    IN IF n > MAX_SESSIONS
       THEN StorageRemove(st, {k \in sessions : RankOldestFirst(st, sessions, k) < n - MAX_SESSIONS})
       ELSE st

performEmergencyCleanup(st, t) ==
    LET st1 == StorageRemove(st, KeysWithPrefix(st, "error"))
        st2 == StorageRemove(st1, KeysWithPrefix(st1, "tabState"))
        sessions == KeysWithPrefix(st, "session")
        sorted == Cardinality(sessions) > EMERGENCY_SESSIONS
        sessionsToRemove ==
            IF sorted
            THEN {k \in sessions : RankNewestFirst(st, sessions, k) >= EMERGENCY_SESSIONS}
            ELSE {}
        RECURSIVE backupAll(_, _)
        backupAll(s, keys) ==
            IF keys = {} THEN s
            ELSE LET k == CHOOSE x \in keys :
                            \A y \in keys : RankNewestFirst(st, sessions, x)
                                              <= RankNewestFirst(st, sessions, y)
                 IN backupAll(createSessionBackup(s, st[k].id, st[k], t), keys \ {k})
        st3 == StorageRemove(backupAll(st2, sessionsToRemove), sessionsToRemove)
        remaining == sessions \ sessionsToRemove
        RECURSIVE truncateAll(_, _)
        truncateAll(s, keys) ==
            IF keys = {} THEN s
            ELSE LET k == CHOOSE x \in keys : TRUE
                     data == st[k]
                 IN IF Len(data.messages) > EMERGENCY_MESSAGES
                    THEN truncateAll(
                           StorageSet(createSessionBackup(s, data.id, data, t), k,
                                      [data EXCEPT !.messages =
                                          SliceLast(data.messages, EMERGENCY_MESSAGES)]),
                           keys \ {k})
                    ELSE truncateAll(s, keys \ {k})
    IN truncateAll(st3, remaining)

\* Result of checkStorageLimitsAndCleanup: the store, the caller's sessionData
\* (trimmed in place), the number of random suffixes drawn and the cleanup
\* functions called, in call order.
checkStorageLimitsAndCleanup_NoTrim(st, sessionData, t, rand) ==
    [st |-> st, data |-> sessionData, used |-> 0, cleanups |-> <<>>]

checkStorageLimitsAndCleanup(st, sessionData, t, rand) ==
    LET over == Len(sessionData.messages) > MAX_MESSAGES_PER_SESSION
        st1 == IF over
               THEN logError(createSessionBackup(st, sessionData.id, sessionData, t),
                             "session_cleanup", t, rand)
               ELSE st
        data1 == IF over
                 THEN [sessionData EXCEPT !.messages = SliceLast(@, messagesToKeep)]
                 ELSE sessionData
        st2 == IF checkStorageQuota(st1) THEN st1
               ELSE LET cleaned == cleanupOldSessions(st1)
                    IN IF checkStorageQuota(cleaned) THEN cleaned
                       ELSE performEmergencyCleanup(cleaned, t)
    IN [st |-> st2, data |-> data1, used |-> IF over THEN 1 ELSE 0,
        cleanups |-> IF checkStorageQuota(st1) THEN <<>>
                     ELSE IF checkStorageQuota(cleanupOldSessions(st1))
                          THEN <<"cleanupOldSessions">>
                          ELSE <<"cleanupOldSessions", "performEmergencyCleanup">>]

-----------------------------------------------------------------------------
(* Pagination *)

Timestamp(msg) == Field(msg, "timestamp").v

\* [...messages].sort((a, b) => b.timestamp - a.timestamp), a stable sort:
\* a message comes after those with a later timestamp and after the earlier
\* ones of the list with the same timestamp
SortDesc(messages, n) ==
    LET stamps == <<>> \o [i \in 1..n |-> Timestamp(messages[i])]
        rank == <<>> \o [i \in 1..n |->
                   1 + Cardinality({j \in 1..n :
                          \/ stamps[j] > stamps[i]
                          \/ stamps[j] = stamps[i] /\ j < i})]
    IN [r \in 1..n |-> messages[CHOOSE i \in 1..n : rank[i] = r]]

Max(a, b) == IF a >= b THEN a ELSE b
Min(a, b) == IF a <= b THEN a ELSE b

\* Array.prototype.slice(start, end) with 0-based bounds
Slice(seq, start, end) ==
    LET n == Len(seq)
        from == IF start < 0 THEN Max(n + start, 0) ELSE Min(start, n)
        to == IF end < 0 THEN Max(n + end, 0) ELSE Min(end, n)
    IN IF from >= to THEN <<>> ELSE SubSeq(seq, from + 1, to)

Reverse(seq) == [i \in 1..Len(seq) |-> seq[Len(seq) + 1 - i]]

paginateMessages_NoReverse(messages, offset, limit) ==
    LET total == Len(messages)
        startIndex == Max(0, offset)
        endIndex == Min(total, startIndex + limit)
    IN [messages |-> Slice(SortDesc(messages, total), startIndex, endIndex),
        total |-> total, hasMore |-> endIndex < total,
        offset |-> offset, limit |-> limit]

paginateMessages(messages, offset, limit) ==
    LET total == Len(messages)
        sortedMessages == SortDesc(messages, total)
        startIndex == Max(0, offset)
        endIndex == Min(total, startIndex + limit)
        paginatedMessages == Slice(sortedMessages, startIndex, endIndex)
    IN [messages |-> Reverse(paginatedMessages),
        total |-> total,
        hasMore |-> endIndex < total,
        offset |-> offset,
        limit |-> limit]

-----------------------------------------------------------------------------
(* Retrieval and corruption recovery *)

\* the catch block of recoverCorruptedSession
recoveryFailed(st, sessionId, t, rand) ==
    [st |-> logError(st, "session_recovery_failed", t, rand),
     data |-> [id |-> sessionId, messages |-> <<>>, createdAt |-> t, lastActivity |-> t],
     used |-> 1]

recoverCorruptedSession(st, sessionId, corruptedData, t, rand) ==
    LET backup == restoreSessionFromBackup(st, sessionId)
    IN IF backup.found /\ validateSessionData(backup.data)
       THEN [st |-> StorageSet(st, SessionKey(sessionId), backup.data),
             data |-> backup.data, used |-> 0]
       ELSE IF corruptedData \in {Null, Undef}
       THEN \* reading corruptedData.createdAt throws
            recoveryFailed(st, sessionId, t, rand)
       ELSE LET createdAt == IF Truthy(JsCreatedAt(corruptedData))
                             THEN JsCreatedAt(corruptedData) ELSE Num(t)
                messages == SelectSeq(MessagesOf(corruptedData), validateMessageData)
                recoveredData ==
                    IF createdAt.t = "number"
                    THEN [id |-> sessionId, messages |-> messages,
                          createdAt |-> createdAt.v, lastActivity |-> t]
                    ELSE CorruptSession(Str(Len(sessionId), 0), JsArray(messages),
                                        createdAt, Num(t))
            IN [st |-> logError(StorageSet(st, SessionKey(sessionId), recoveredData),
                                "session_recovery", t, rand),
                data |-> recoveredData, used |-> 1]

EmptyPage == [messages |-> <<>>, total |-> 0, hasMore |-> FALSE]

getMessagesFromSessionPaginated_NoRestore(st, sessionId, offset, limit, t, rand) ==
    [page |-> EmptyPage, from |-> "none", st |-> st, used |-> 0]

\* Result: the page, where it was read from, the store and the random suffixes drawn
getMessagesFromSessionPaginated(st, sessionId, offset, limit, t, rand) ==
    IF SessionKey(sessionId) \notin DOMAIN st \/ ~Truthy(st[SessionKey(sessionId)])
    THEN LET backup == restoreSessionFromBackup(st, sessionId)
         IN IF backup.found /\ Truthy(backup.data) /\ Truthy(JsMessages(backup.data))
            THEN [page |-> paginateMessages(MessagesOf(backup.data), offset, limit),
                  from |-> "backup", st |-> st, used |-> 0]
            ELSE [page |-> EmptyPage, from |-> "none", st |-> st, used |-> 0]
    ELSE LET sessionData == st[SessionKey(sessionId)]
         IN IF ~validateSessionData(sessionData)
            THEN LET rec == recoverCorruptedSession(st, sessionId, sessionData, t, rand)
                 IN [page |-> paginateMessages(MessagesOf(rec.data), offset, limit),
                     from |-> "recovered", st |-> rec.st, used |-> rec.used]
            ELSE [page |-> paginateMessages(MessagesOf(sessionData), offset, limit),
                  from |-> "session", st |-> st, used |-> 0]

-----------------------------------------------------------------------------
(* State *)

Procs == {1, 2}

NoData == [id |-> <<>>, messages |-> <<>>, createdAt |-> 0, lastActivity |-> 0]
EmptyStore == [k \in {} |-> NoData]

\* pre, loadedLen and cleanups record, for the properties, the store when the
\* request arrived, the number of messages the handler read from it and the
\* cleanup functions the handler called, in call order
IdleProc == [pc |-> "idle", sessionId |-> <<>>, message |-> Undef, sessionData |-> NoData,
             response |-> "none", pre |-> EmptyStore, loadedLen |-> 0, cleanups |-> <<>>]

NoPage == [sessionId |-> <<>>, offset |-> 0, limit |-> 0, messages |-> <<>>, total |-> 0,
           hasMore |-> FALSE, from |-> "none", source |-> <<>>]

NoRestore == [sessionId |-> <<>>, found |-> FALSE, data |-> NoData, after |-> 0]

\* a stored message number i of a session written before the model starts
StoredMessage(i, ts, len) ==
    [id |-> Str(20, 0 - i), content |-> Str(len, 0 - i), timestamp |-> Num(ts),
     type |-> "user", metadata |-> TRUE]

\* result: what the call returned; raised: whether it threw
NoCall == [op |-> "none", before |-> EmptyStore, after |-> EmptyStore,
           result |-> NoData, raised |-> FALSE]

\* the periodic tab-state sweep: where it stands, the live tabs it was given
\* and the keys it found to remove
NoSweep == [pc |-> "idle", tabs |-> {}, keys |-> {}]

\* no tab open and no task in flight; active is the tab in front and pages
\* holds, per tab, the page it shows and the state of its content script
\* the chat form of a sidebar as createSidebar builds it: the text of the
\* input (len characters, ws of them leading or trailing white space), the
\* send button (disabled, label), the saveMessage requests that await their
\* response, the messages shown and the error marks shown
NoSidebar == [input |-> [len |-> 0, ws |-> 0], disabled |-> TRUE, label |-> "Send",
              pending |-> 0, history |-> 0, errors |-> 0]

NoBrowser == [tabs |-> {}, sweep |-> NoSweep, active |-> 0, pages |-> <<>>,
              sidebar |-> NoSidebar]

\* the service worker after its start, apart from the store, the clock and
\* the browser
WorkerIdle ==
    /\ nextRand = 1
    /\ procs = [p \in Procs |-> IdleProc]
    /\ opCount = 0
    /\ lastPage = NoPage
    /\ callLog = <<>>
    /\ restored = NoRestore
    /\ backupCalls = <<>>
    /\ candidate = Undef
    /\ verdict = "none"
    /\ evicted = {}
    /\ lastCall = NoCall
    /\ loggedKeys = <<>>

InitWorker ==
    /\ now = Epoch
    /\ WorkerIdle

InitRest ==
    /\ InitWorker
    /\ browser = NoBrowser

-----------------------------------------------------------------------------
(* saveMessage: handleSaveMessage and saveMessageToSession, one action per
   stretch of code between two awaits *)

SetProc(p, rec) == procs' = [procs EXCEPT ![p] = rec]

\* String.prototype.trim(): ws counts the leading and trailing white space
Trim(content, ws) == Str(content.len - ws, content.v)

\* the catch block of saveMessageToSession followed by that of handleSaveMessage
FailSave(p, st) ==
    /\ storage' = logError(st, "save_message_failed", now, nextRand)
    /\ nextRand' = nextRand + 1
    /\ SetProc(p, [procs[p] EXCEPT !.pc = "done", !.response = "error"])

HandleSaveMessage(p, messageData) ==
    /\ procs[p].pc \in {"idle", "done"}
    /\ opCount < MaxOps
    /\ opCount' = opCount + 1
    /\ IF ~Truthy(messageData.content) \/ TypeOf(messageData.content) # "string"
       THEN /\ SetProc(p, [IdleProc EXCEPT !.pc = "done", !.response = "error",
                                           !.pre = storage])
            /\ UNCHANGED nextRand
       ELSE LET hasCurrent == CurrentSessionKey \in DOMAIN storage
                sessionId == IF hasCurrent THEN storage[CurrentSessionKey]
                             ELSE generateSessionId(now, nextRand)
                idRand == IF hasCurrent THEN nextRand ELSE nextRand + 1
                message == [id |-> Str(20, idRand),
                            content |-> Trim(messageData.content, messageData.ws),
                            timestamp |-> Num(now),
                            type |-> messageData.type,
                            metadata |-> TRUE]
            IN /\ SetProc(p, [IdleProc EXCEPT !.pc = "quota", !.sessionId = sessionId,
                                               !.message = message, !.pre = storage])
               /\ nextRand' = idRand + 1
    /\ UNCHANGED <<storage, now, lastPage, callLog, opVars>>

SaveCheckQuota(p) ==
    /\ procs[p].pc = "quota"
    /\ IF checkStorageQuota(storage)
       THEN /\ SetProc(p, [procs[p] EXCEPT !.pc = "read"])
            /\ UNCHANGED <<storage, nextRand>>
       ELSE LET cleaned == performEmergencyCleanup(storage, now)
            IN IF checkStorageQuota(cleaned)
               THEN /\ storage' = cleaned
                    /\ SetProc(p, [procs[p] EXCEPT
                                      !.pc = "read",
                                      !.cleanups = Append(@, "performEmergencyCleanup")])
                    /\ UNCHANGED nextRand
               ELSE /\ storage' = logError(cleaned, "save_message_failed", now, nextRand)
                    /\ nextRand' = nextRand + 1
                    /\ SetProc(p, [procs[p] EXCEPT
                                      !.pc = "done", !.response = "error",
                                      !.cleanups = Append(@, "performEmergencyCleanup")])
    /\ UNCHANGED <<now, opCount, lastPage, callLog, opVars>>

SaveRead(p) ==
    /\ procs[p].pc = "read"
    /\ LET sessionKey == SessionKey(procs[p].sessionId)
           sessionData == IF sessionKey \in DOMAIN storage THEN storage[sessionKey]
                          ELSE [id |-> procs[p].sessionId, messages |-> <<>>,
                                createdAt |-> now, lastActivity |-> now]
       IN IF ~validateMessageData(procs[p].message)
          THEN FailSave(p, storage)
          ELSE /\ SetProc(p, [procs[p] EXCEPT
                       !.pc = "limits",
                       !.loadedLen = Len(sessionData.messages),
                       !.sessionData = [sessionData EXCEPT
                                           !.messages = Append(@, procs[p].message),
                                           !.lastActivity = now]])
               /\ UNCHANGED <<storage, nextRand>>
    /\ UNCHANGED <<now, opCount, lastPage, callLog, opVars>>

SaveCheckLimits(p) ==
    /\ procs[p].pc = "limits"
    /\ LET r == checkStorageLimitsAndCleanup(storage, procs[p].sessionData, now, nextRand)
       IN /\ storage' = r.st
          /\ nextRand' = nextRand + r.used
          /\ SetProc(p, [procs[p] EXCEPT !.pc = "write", !.sessionData = r.data,
                                         !.cleanups = @ \o r.cleanups])
    /\ UNCHANGED <<now, opCount, lastPage, callLog, opVars>>

SaveWrite_SessionOnly(p) ==
    /\ procs[p].pc = "write"
    /\ storage' = StorageSet(storage, SessionKey(procs[p].sessionId), procs[p].sessionData)
    /\ SetProc(p, [procs[p] EXCEPT !.pc = "backup"])
    /\ UNCHANGED <<now, nextRand, opCount, lastPage, callLog, opVars>>

\* setStorageWithRetry({ [sessionKey]: sessionData, currentSession: sessionId })
SaveWrite(p) ==
    /\ procs[p].pc = "write"
    /\ storage' = StorageSet(StorageSet(storage, SessionKey(procs[p].sessionId),
                                        procs[p].sessionData),
                             CurrentSessionKey, procs[p].sessionId)
    /\ SetProc(p, [procs[p] EXCEPT !.pc = "backup"])
    /\ UNCHANGED <<now, nextRand, opCount, lastPage, callLog, opVars>>

SaveBackupAndRespond(p) ==
    /\ procs[p].pc = "backup"
    /\ storage' = IF Len(procs[p].sessionData.messages) % BACKUP_INTERVAL = 0
                  THEN createSessionBackup(storage, procs[p].sessionId,
                                           procs[p].sessionData, now)
                  ELSE storage
    /\ SetProc(p, [procs[p] EXCEPT !.pc = "done", !.response = "success"])
    /\ callLog' = Append(callLog, procs[p].message.id.v)
    /\ UNCHANGED <<now, nextRand, opCount, lastPage, opVars>>

-----------------------------------------------------------------------------
(* getMessages *)

\* requested is <<>> when the request names no session
HandleGetMessages(requested, offset, limit) ==
    LET sessionId == IF requested # <<>> THEN requested
                     ELSE IF CurrentSessionKey \in DOMAIN storage
                          THEN storage[CurrentSessionKey]
                          ELSE generateSessionId(now, nextRand)
        generated == requested = <<>> /\ CurrentSessionKey \notin DOMAIN storage
        base == IF generated THEN nextRand + 1 ELSE nextRand
        r == getMessagesFromSessionPaginated(storage, sessionId, offset, limit, now, base)
    IN /\ opCount < MaxOps
       /\ opCount' = opCount + 1
       /\ lastPage' = [sessionId |-> sessionId, offset |-> offset, limit |-> limit,
                       messages |-> r.page.messages, total |-> r.page.total,
                       hasMore |-> r.page.hasMore, from |-> r.from,
                       source |-> IF SessionKey(sessionId) \in DOMAIN storage
                                  THEN MessagesOf(storage[SessionKey(sessionId)]) ELSE <<>>]
       /\ storage' = r.st
       /\ nextRand' = base + r.used
       /\ UNCHANGED <<now, procs, callLog, opVars>>

\* the clock moves on by a millisecond, up to a bound
Advance(bound) ==
    /\ now < Epoch + bound
    /\ now' = now + 1
    /\ UNCHANGED <<storage, nextRand, procs, opCount, lastPage, callLog, opVars>>

Tick == Advance(MaxTicks)

-----------------------------------------------------------------------------
(* The storage functions called on their own *)

ValidateMessage ==
    /\ verdict = "none"
    /\ verdict' = IF validateMessageData(candidate) THEN "true" ELSE "false"
    /\ UNCHANGED <<storage, now, nextRand, procs, opCount, lastPage, callLog,
                   restored, backupCalls, candidate, evicted, lastCall, loggedKeys, browser>>

MaxBackupCalls == 4

CreateBackup(sessionId, sessionData) ==
    /\ Len(backupCalls) < MaxBackupCalls
    /\ storage' = createSessionBackup(storage, sessionId, sessionData, now)
    /\ backupCalls' = Append(backupCalls, [sessionId |-> sessionId, data |-> sessionData,
                                           at |-> now])
    /\ UNCHANGED <<now, nextRand, procs, opCount, lastPage, callLog,
                   restored, candidate, verdict, evicted, lastCall, loggedKeys, browser>>

\* after: the number of createSessionBackup calls made before this restore
RestoreFromBackup(sessionId) ==
    /\ LET r == restoreSessionFromBackup(storage, sessionId)
       IN restored' = [sessionId |-> sessionId, found |-> r.found,
                       data |-> IF r.found THEN r.data ELSE NoData,
                       after |-> Len(backupCalls)]
    /\ UNCHANGED <<storage, now, nextRand, procs, opCount, lastPage, callLog,
                   backupCalls, candidate, verdict, evicted, lastCall, loggedKeys, browser>>

CleanupOldSessions ==
    /\ evicted = {}
    /\ storage' = cleanupOldSessions(storage)
    /\ evicted' = {[key |-> k, data |-> storage[k]] :
                     k \in KeysWithPrefix(storage, "session") \ DOMAIN storage'}
    /\ UNCHANGED <<now, nextRand, procs, opCount, lastPage, callLog,
                   restored, backupCalls, candidate, verdict, lastCall, loggedKeys, browser>>

-----------------------------------------------------------------------------
(* Initial stores *)

S1 == <<SessionWord, 1000, 1>>
S2 == <<SessionWord, 1001, 2>>

\* a session of n messages written one per millisecond up to the start of the model
StoredSession(sessionId, n, len) ==
    [id |-> sessionId,
     messages |-> [i \in 1..n |-> StoredMessage(i, Epoch - n + i, len)],
     createdAt |-> Epoch - n,
     lastActivity |-> Epoch]

\* the store after installation and after n messages were saved to the session
StoreWith(sessionId, n, len) ==
    LET installed == StorageSet(EmptyStore, CurrentSessionKey, sessionId)
    IN IF n = 0 THEN installed
       ELSE StorageSet(installed, SessionKey(sessionId), StoredSession(sessionId, n, len))

MaxStored == 2
DEFAULT_LIMIT == 50

\* messageData of a saveMessage request
UserText == [content |-> Str(5, 0), ws |-> 0, type |-> "user"]
BlankText == [content |-> Str(2, 0), ws |-> 2, type |-> "user"]
LongText == [content |-> Str(MAX_CONTENT_LENGTH + 1, 0), ws |-> 0, type |-> "user"]
FullText == [content |-> Str(MAX_CONTENT_LENGTH, 0), ws |-> 0, type |-> "system"]
NoText == [content |-> Undef, ws |-> 0, type |-> "user"]
NotText == [content |-> Num(5), ws |-> 0, type |-> "user"]

-----------------------------------------------------------------------------
(* Spec: requests from several tabs, whose handlers interleave at their awaits *)

Init ==
    /\ \E n \in 0..MaxStored : storage = StoreWith(S1, n, 5)
    /\ InitRest

SaveSteps(p) ==
    \/ SaveCheckQuota(p)
    \/ SaveRead(p)
    \/ SaveCheckLimits(p)
    \/ SaveWrite(p)
    \/ SaveBackupAndRespond(p)

GetMessages ==
    \E limit \in {1, DEFAULT_LIMIT} : HandleGetMessages(<<>>, 0, limit)

Next ==
    \/ \E p \in Procs : \E md \in {UserText, BlankText} : HandleSaveMessage(p, md)
    \/ \E p \in Procs : SaveSteps(p)
    \/ GetMessages
    \/ Tick

Spec == Init /\ [][Next]_vars

-----------------------------------------------------------------------------
(* SpecSeq: one sidebar, which sends the next request when the last was answered *)

NoneInFlight == \A p \in Procs : procs[p].pc \in {"idle", "done"}

NextSeq ==
    \/ \E md \in {UserText, FullText, BlankText, NoText, NotText} :
          NoneInFlight /\ HandleSaveMessage(1, md)
    \/ SaveSteps(1)
    \/ NoneInFlight /\ GetMessages
    \/ Tick

SpecSeq == Init /\ [][NextSeq]_vars

-----------------------------------------------------------------------------
(* Properties *)

IdsOf(messages) == [i \in 1..Len(messages) |-> messages[i].id.v]
Range(seq) == {seq[i] : i \in 1..Len(seq)}

StoredMessages(st, sessionId) ==
    IF SessionKey(sessionId) \in DOMAIN st THEN st[SessionKey(sessionId)].messages ELSE <<>>

Succeeded(p) == procs[p].pc = "done" /\ procs[p].response = "success"
Failed(p) == procs[p].pc = "done" /\ procs[p].response = "error"

\* C1: when two saveMessage requests on the same session have both responded
\* success, the persisted session contains both messages, however their
\* handlers interleaved.
C1_NoSaveLost ==
    \A p, q \in Procs :
        (p # q /\ Succeeded(p) /\ Succeeded(q) /\ procs[p].sessionId = procs[q].sessionId)
        => {procs[p].message.id.v, procs[q].message.id.v}
             \subseteq Range(IdsOf(StoredMessages(storage, procs[p].sessionId)))

IsSaved(id) == id > 0

\* C2: a getMessages page that covers the whole session, taken after a sequence
\* of successful saves, lists the messages in non-decreasing timestamp order
\* and in the order in which the saves were made.
C2_CallOrder ==
    (/\ lastPage.from = "session"
     /\ lastPage.offset = 0
     /\ lastPage.limit >= lastPage.total
     /\ {id \in Range(IdsOf(lastPage.messages)) : IsSaved(id)} = Range(callLog))
    => /\ \A i \in 1..(Len(lastPage.messages) - 1) :
              Timestamp(lastPage.messages[i]) <= Timestamp(lastPage.messages[i + 1])
       /\ SelectSeq(IdsOf(lastPage.messages), IsSaved) = callLog

\* the message of the request failed validation: handleSaveMessage rejected
\* messageData, or validateMessageData rejected the message built from it
InvalidRequest(p) == IsPrimitive(procs[p].message) \/ ~validateMessageData(procs[p].message)

TargetSession(p) == procs[p].pre[CurrentSessionKey]

\* C3: a saveMessage whose message fails validation responds with an error,
\* no stored session contains the message afterwards, and the target session's
\* message sequence is what it was before the call.
C3_InvalidNeverPersisted ==
    \A p \in Procs :
        (procs[p].pc = "done" /\ InvalidRequest(p))
        => /\ procs[p].response = "error"
           /\ \A k \in KeysWithPrefix(storage, "session") :
                  IsPrimitive(procs[p].message)
                  \/ procs[p].message.id.v \notin Range(IdsOf(storage[k].messages))
           /\ StoredMessages(storage, TargetSession(p))
                = StoredMessages(procs[p].pre, TargetSession(p))

-----------------------------------------------------------------------------
(* SpecValidate: validateMessageData applied to one value *)

IdValues == {Undef, Null, Str(0, 1), Str(20, 1), Num(0), Num(7)}
ContentValues == {Undef, Str(0, 2), Str(1, 2), Str(MAX_CONTENT_LENGTH, 2),
                  Str(MAX_CONTENT_LENGTH + 1, 2), Num(7)}
TimestampValues == {Undef, NaN, Num(0 - 1), Num(0), Num(1), Num(Epoch), Str(13, 3)}

Candidates ==
    {Undef, Null, Num(1), Str(3, 1)}
    \cup {[id |-> i, content |-> c, timestamp |-> ts, type |-> "user"] :
            i \in IdValues, c \in ContentValues, ts \in TimestampValues}
    \cup {[id |-> i, content |-> c] : i \in IdValues, c \in ContentValues}
    \cup {[content |-> c, timestamp |-> ts] : c \in ContentValues, ts \in TimestampValues}

InitValidate ==
    /\ storage = EmptyStore
    /\ now = Epoch
    /\ nextRand = 1
    /\ procs = [p \in Procs |-> IdleProc]
    /\ opCount = 0
    /\ lastPage = NoPage
    /\ callLog = <<>>
    /\ restored = NoRestore
    /\ backupCalls = <<>>
    /\ candidate \in Candidates
    /\ verdict = "none"
    /\ evicted = {}
    /\ lastCall = NoCall
    /\ loggedKeys = <<>>
    /\ browser = NoBrowser

NextValidate == ValidateMessage

SpecValidate == InitValidate /\ [][NextValidate]_vars

IsNonEmptyString(x) == IsPrimitive(x) /\ x.t = "string" /\ x.len >= 1
IsPositiveNumber(x) == IsPrimitive(x) /\ x.t = "number" /\ x.v > 0

\* a message as the data model defines a valid one
WellFormedMessage(m) ==
    /\ ~IsPrimitive(m)
    /\ "id" \in DOMAIN m /\ IsNonEmptyString(m.id)
    /\ "content" \in DOMAIN m /\ IsNonEmptyString(m.content)
    /\ "timestamp" \in DOMAIN m /\ IsPositiveNumber(m.timestamp)
    /\ m.content.len <= 10000

\* C4: validate(message) answers true exactly for a non-null record whose id
\* and content are non-empty strings, whose timestamp is a number above 0 and
\* whose content has at most 10000 characters, and it always answers.
C4_ValidationGate ==
    verdict # "none" =>
        /\ verdict \in {"true", "false"}
        /\ (verdict = "true") <=> WellFormedMessage(candidate)

C4_Witness ==
    /\ verdict = "true"
    /\ candidate.content.len = 10000

-----------------------------------------------------------------------------
(* SpecPaginate: getMessages on a stored session of any order of timestamps *)

MaxMessages == 4
MaxOffset == 3
MaxLimit == 2

TimestampChoices == {Epoch - 2, Epoch - 1, Epoch}

InitPaginate ==
    /\ \E n \in 0..MaxMessages :
         \E ts \in [1..n -> TimestampChoices] :
            storage = StorageSet(StorageSet(EmptyStore, CurrentSessionKey, S1),
                                 SessionKey(S1),
                                 [id |-> S1,
                                  messages |-> [i \in 1..n |-> StoredMessage(i, ts[i], 5)],
                                  createdAt |-> Epoch - 2,
                                  lastActivity |-> Epoch])
    /\ InitRest

NextPaginate ==
    \E offset \in (0 - 1)..MaxOffset, limit \in (1..MaxLimit) \cup {DEFAULT_LIMIT} :
        HandleGetMessages(<<>>, offset, limit)

SpecPaginate == InitPaginate /\ [][NextPaginate]_vars

\* the r-th greatest timestamp of a message list, as a value
RankedTimestamp(messages, r) ==
    CHOOSE t \in {Timestamp(messages[i]) : i \in 1..Len(messages)} :
        /\ Cardinality({i \in 1..Len(messages) : Timestamp(messages[i]) > t}) < r
        /\ Cardinality({i \in 1..Len(messages) : Timestamp(messages[i]) >= t}) >= r

PageCount(n, limit) == (n + limit - 1) \div limit

\* C5: a page (offset >= 0, limit > 0) of a session of N messages holds the
\* messages ranked offset .. offset+limit-1 from the newest, oldest first,
\* with total N and hasMore exactly when offset+limit < N; the pages at
\* offsets 0, limit, 2*limit, ... return every message exactly once.
C5_Pagination ==
    (lastPage.from = "session" /\ lastPage.offset >= 0 /\ lastPage.limit > 0) =>
        LET src == lastPage.source
            n == Len(src)
            size == Max(0, Min(lastPage.limit, n - lastPage.offset))
            page == lastPage.messages
            pagesOf(id) == {j \in 0..(PageCount(n, lastPage.limit) - 1) :
                              id \in Range(IdsOf(paginateMessages(
                                        src, j * lastPage.limit, lastPage.limit).messages))}
        IN /\ lastPage.total = n
           /\ lastPage.hasMore <=> (lastPage.offset + lastPage.limit < n)
           /\ Len(page) = size
           /\ Range(IdsOf(page)) \subseteq Range(IdsOf(src))
           /\ Cardinality(Range(IdsOf(page))) = size
           /\ \A i \in 1..size :
                 Timestamp(page[i]) = RankedTimestamp(src, lastPage.offset + size + 1 - i)
           /\ \A id \in Range(IdsOf(src)) : Cardinality(pagesOf(id)) = 1

C5_Witness ==
    /\ lastPage.from = "session"
    /\ lastPage.offset = 1
    /\ lastPage.limit = 2
    /\ lastPage.total = 4
    /\ lastPage.hasMore
    /\ Timestamp(lastPage.messages[1]) < Timestamp(lastPage.messages[2])

-----------------------------------------------------------------------------
(* SpecLimits: one sidebar saving to a session at the message limit, with
   message texts short, long enough for the trim backup to fill the quota,
   and long enough for the session itself to fill it *)

MidLength == 2400
QuotaLength == 4720

InitLimits ==
    /\ \E n \in {MAX_MESSAGES_PER_SESSION - 1, MAX_MESSAGES_PER_SESSION},
          len \in {5, MidLength, QuotaLength} :
            storage = StoreWith(S1, n, len)
    /\ InitRest

NextLimits ==
    \/ \E md \in {UserText, BlankText, LongText} : NoneInFlight /\ HandleSaveMessage(1, md)
    \/ SaveSteps(1)
    \/ Tick

SpecLimits == InitLimits /\ [][NextLimits]_vars

\* the messages the session held when the request arrived, and the new one
PreTrim(p) == Append(StoredMessages(procs[p].pre, procs[p].sessionId), procs[p].message)

\* C6: after a successful saveMessage the persisted session holds at most 1000
\* messages, and when the save's append takes it over 1000 it holds exactly the
\* 800 most recent ones, the new message included, in their order.
C6_SessionCap ==
    \A p \in Procs :
        Succeeded(p) =>
            LET stored == StoredMessages(storage, procs[p].sessionId)
            IN /\ Len(stored) <= 1000
               /\ procs[p].loadedLen + 1 > 1000 =>
                     /\ Len(stored) = 800
                     /\ stored[800] = procs[p].message
                     /\ stored = SubSeq(PreTrim(p), Len(PreTrim(p)) - 799, Len(PreTrim(p)))

C6_Witness ==
    /\ Succeeded(1)
    /\ procs[1].loadedLen = 1000
    /\ Len(StoredMessages(storage, procs[1].sessionId)) = 800

\* the backups of a session that were written since the request arrived
NewBackups(p) ==
    {k \in BackupsOf(storage, procs[p].sessionId) :
        k \notin DOMAIN procs[p].pre \/ storage[k] # procs[p].pre[k]}

\* C7: checkLimitsAndCleanup leaves a session of at most 1000 messages and the
\* backups alone; on 1001 or more it leaves the 800 most recent messages and,
\* when the save has completed, exactly one new backup of the session exists,
\* holding the whole pre-trim sequence.
C7_TrimBackup ==
    \A p \in Procs :
        /\ (/\ procs[p].pc = "write"
            /\ checkStorageQuota(procs[p].pre)
            /\ procs[p].loadedLen + 1 <= 1000)
           => /\ storage = procs[p].pre
              /\ procs[p].sessionData.messages = PreTrim(p)
        /\ (Succeeded(p) /\ procs[p].loadedLen + 1 > 1000)
           => /\ Len(StoredMessages(storage, procs[p].sessionId)) = 800
              /\ Cardinality(NewBackups(p)) = 1
              /\ \A k \in NewBackups(p) : IdsOf(storage[k].messages) = IdsOf(PreTrim(p))

-----------------------------------------------------------------------------
(* SpecBackup: createSessionBackup and restoreSessionFromBackup called on two
   sessions that grow by one message between backups, at the same or at
   later clock values *)

MaxBackupTicks == 3

MessageTypes == <<"user", "assistant", "system">>

\* message number i of a session, as handleSaveMessage builds it
BackupMessage(i) ==
    [id |-> Str(20, i), content |-> Str(4 + i, i), timestamp |-> Num(Epoch + (i \div 2)),
     type |-> MessageTypes[(i % 3) + 1], metadata |-> TRUE]

\* the session after n messages
BackupData(sessionId, n) ==
    [id |-> sessionId, messages |-> [i \in 1..n |-> BackupMessage(i)],
     createdAt |-> Epoch, lastActivity |-> Epoch + (n \div 2)]

InitBackup ==
    /\ storage = EmptyStore
    /\ InitRest

NextBackup ==
    \/ \E sid \in {S1, S2} : CreateBackup(sid, BackupData(sid, Len(backupCalls)))
    \/ \E sid \in {S1, S2} : RestoreFromBackup(sid)
    \/ Advance(MaxBackupTicks)

SpecBackup == InitBackup /\ [][NextBackup]_vars

\* the essential fields of every message, in order
Essentials(messages) ==
    [i \in 1..Len(messages) |->
        <<Field(messages[i], "id"), Field(messages[i], "content"),
          Field(messages[i], "timestamp"), Field(messages[i], "type")>>]

\* the createSessionBackup calls made for a session, in call order
CallsFor(sessionId) ==
    SelectSeq(backupCalls, LAMBDA c : c.sessionId = sessionId)

\* C8: restoreSessionFromBackup(id) called right after createSessionBackup(id,
\* data) returns a session with as many messages as data, in the same order,
\* each with the id, content, timestamp and type it has in data.
C8_BackupRoundTrip ==
    (/\ restored.after > 0
     /\ backupCalls[restored.after].sessionId = restored.sessionId)
    => /\ restored.found
       /\ Len(restored.data.messages) = Len(backupCalls[restored.after].data.messages)
       /\ Essentials(restored.data.messages)
            = Essentials(backupCalls[restored.after].data.messages)

C8_Witness ==
    /\ restored.after >= 3
    /\ backupCalls[restored.after].sessionId = restored.sessionId
    /\ restored.found
    /\ Len(restored.data.messages) >= 2
    /\ Cardinality(BackupsOf(storage, restored.sessionId)) >= 2

\* C9: once four or more createSessionBackup calls for a session have
\* completed, exactly 3 backups of it are stored, they hold what the last
\* three calls were given, and restoreSessionFromBackup returns what the last
\* call was given.
C9_BackupRetention ==
    \A sid \in {S1, S2} :
        LET calls == CallsFor(sid)
            n == Len(calls)
            backups == BackupsOf(storage, sid)
        IN n >= 4 =>
            /\ Cardinality(backups) = 3
            /\ {Essentials(storage[k].messages) : k \in backups}
                 = {Essentials(calls[i].data.messages) : i \in (n - 2)..n}
            /\ restoreSessionFromBackup(storage, sid).found
            /\ Essentials(restoreSessionFromBackup(storage, sid).data.messages)
                 = Essentials(calls[n].data.messages)

-----------------------------------------------------------------------------
(* SpecEvict: cleanupOldSessions on a store of ten to twelve sessions of one
   message each, whose last activity follows or reverses their creation *)

MaxSessionsStored == 12

EvictSessionId(i) == <<SessionWord, Epoch - 100 + i, i>>

\* order 1: the session created first was active last; order 2: first; order
\* 3: the odd-numbered sessions were active after the even-numbered ones
EvictLastActivity(order, i) ==
    CASE order = 1 -> Epoch - i
      [] order = 2 -> Epoch - 50 + i
      [] OTHER -> IF i % 2 = 1 THEN Epoch - 20 + i ELSE Epoch - 50 + i

EvictStore(n, order) ==
    [k \in {SessionKey(EvictSessionId(i)) : i \in 1..n} |->
        LET i == k.parts[3]
        IN [id |-> EvictSessionId(i),
            messages |-> <<StoredMessage(i, Epoch - 100 + i, 5)>>,
            createdAt |-> Epoch - 100 + i,
            lastActivity |-> EvictLastActivity(order, i)]]

InitEvict ==
    /\ \E n \in MAX_SESSIONS..MaxSessionsStored, order \in 1..3 :
          storage = EvictStore(n, order)
    /\ InitRest

NextEvict ==
    \/ CleanupOldSessions
    \/ \E i \in 1..MaxSessionsStored : RestoreFromBackup(EvictSessionId(i))
    \/ Tick

SpecEvict == InitEvict /\ [][NextEvict]_vars

\* C10: after cleanupOldSessions has run on more than 10 sessions, exactly 10
\* sessions are stored, none of them was active before a removed one, and
\* restoreSessionFromBackup returns the messages of every removed session.
C10_Eviction ==
    evicted # {} =>
        LET kept == KeysWithPrefix(storage, "session")
        IN /\ Cardinality(kept) = 10
           /\ \A k \in kept : \A e \in evicted :
                 storage[k].lastActivity >= e.data.lastActivity
           /\ \A e \in evicted :
                 LET r == restoreSessionFromBackup(storage, e.data.id)
                 IN /\ r.found
                    /\ Essentials(r.data.messages) = Essentials(e.data.messages)

\* the backups of a session that hold all of the given messages
BackupsHolding(st, sessionId, messages) ==
    {k \in BackupsOf(st, sessionId) :
        Range(Essentials(messages)) \subseteq Range(Essentials(st[k].messages))}

\* the session keys that a step removes or removes messages from
Shrunk(before, after) ==
    {k \in KeysWithPrefix(before, "session") :
        \/ k \notin DOMAIN after
        \/ \E i \in 1..Len(before[k].messages) :
              before[k].messages[i].id \notin
                  {after[k].messages[j].id : j \in 1..Len(after[k].messages)}}

\* C11: every step that removes a session key, or messages of a stored
\* session, leaves a backup of that session holding the data it removed.
C11_BackupBeforeRemoval ==
    [][\A k \in Shrunk(storage, storage') :
          BackupsHolding(storage', storage[k].id, storage[k].messages) # {}]_vars

-----------------------------------------------------------------------------
(* SpecEmergency: performEmergencyCleanup called on stores that hold error
   logs and tab states, then a save.  The stores: five small sessions; one
   session that fills the quota by itself; one session of 150 messages that
   fills the quota together with its three backups. *)

PrunedLength == 7865

TabStateKey(tabId) == [p |-> "tabState", parts |-> <<tabId>>]

\* two error-log entries and the states of two tabs
WithLogsAndTabs(st) ==
    [k \in DOMAIN st \cup {ErrorKey(Epoch - 2, 1), ErrorKey(Epoch - 1, 2),
                           TabStateKey(1), TabStateKey(2)} |->
        IF k \in DOMAIN st THEN st[k]
        ELSE IF k.p = "error" THEN [type |-> "save_message_failed", timestamp |-> k.parts[1]]
        ELSE [visible |-> TRUE, lastUpdate |-> Epoch - 1]]

\* a session of 150 messages whose last three periodic backups are stored
BackedUpStore ==
    LET session == StoredSession(S1, 3 * BACKUP_INTERVAL, PrunedLength)
        st0 == StoreWith(S1, 3 * BACKUP_INTERVAL, PrunedLength)
    IN createSessionBackup(
         createSessionBackup(
           createSessionBackup(st0, S1, session, Epoch - 3), S1, session, Epoch - 2),
         S1, session, Epoch - 1)

InitEmergency ==
    /\ \/ \E order \in 1..3 : storage = WithLogsAndTabs(EvictStore(5, order))
       \/ storage = WithLogsAndTabs(StoreWith(S1, MAX_MESSAGES_PER_SESSION, QuotaLength))
       \/ storage = WithLogsAndTabs(BackedUpStore)
    /\ InitRest

EmergencyCleanup ==
    /\ lastCall.op = "none"
    /\ storage' = performEmergencyCleanup(storage, now)
    /\ lastCall' = [NoCall EXCEPT !.op = "emergency", !.before = storage, !.after = storage']
    /\ UNCHANGED <<now, nextRand, procs, opCount, lastPage, callLog,
                   restored, backupCalls, candidate, verdict, evicted, loggedKeys, browser>>

NextEmergency ==
    \/ EmergencyCleanup
    \/ NoneInFlight /\ HandleSaveMessage(1, UserText)
    \/ SaveSteps(1)
    \/ Tick

SpecEmergency == InitEmergency /\ [][NextEmergency]_vars

\* C12: when performEmergencyCleanup has completed, no error log and no tab
\* state is stored, at most 3 sessions are stored and none of them was active
\* before a removed one, every stored session holds its last 100 messages at
\* most, and a save made after a cleanup of a store that was over quota
\* succeeds.
C12_EmergencyCleanup ==
    lastCall.op = "emergency" =>
        LET before == lastCall.before
            after == lastCall.after
            kept == KeysWithPrefix(after, "session")
            removed == KeysWithPrefix(before, "session") \ kept
        IN /\ KeysWithPrefix(after, "error") = {}
           /\ KeysWithPrefix(after, "tabState") = {}
           /\ Cardinality(kept) <= 3
           /\ \A k \in kept : \A r \in removed :
                 before[k].lastActivity >= before[r].lastActivity
           /\ \A k \in kept :
                 after[k].messages = SliceLast(before[k].messages, 100)
           /\ \A p \in Procs :
                 (/\ procs[p].pc = "done"
                  /\ procs[p].pre = after
                  /\ ~checkStorageQuota(before))
                 => Succeeded(p)

-----------------------------------------------------------------------------
(* SpecRecover: retrieval and recovery on stores whose session record is
   absent, well formed or corrupted, and whose backups are absent, well
   formed or hold an invalid message *)

\* a message with empty content: it fails validateMessageData
EmptyContentMessage(i, ts) ==
    [id |-> Str(20, 0 - i), content |-> Str(0, 0 - i), timestamp |-> Num(ts),
     type |-> "user"]

GoodMessages == <<StoredMessage(1, Epoch - 5, 5), StoredMessage(2, Epoch - 4, 5)>>
MixedMessages == <<StoredMessage(1, Epoch - 5, 5), EmptyContentMessage(2, Epoch - 4),
                   StoredMessage(3, Epoch - 3, 5)>>

\* session objects that fail validateSessionData
CorruptedSessions ==
    {Null,
     CorruptSession(Undef, JsArray(GoodMessages), Num(Epoch - 5), Num(Epoch - 4)),
     CorruptSession(Str(14, 0), JsArray(GoodMessages), Str(9, 0), Num(Epoch - 4)),
     CorruptSession(Str(14, 0), JsArray(GoodMessages), Undef, Num(Epoch - 4)),
     CorruptSession(Str(14, 0), JsArray(GoodMessages), NaN, Undef),
     CorruptSession(Str(14, 0), JsArray(GoodMessages), Num(Epoch - 5), Str(9, 0)),
     CorruptSession(Str(14, 0), Str(3, 0), Num(Epoch - 5), Num(Epoch - 4)),
     CorruptSession(Str(14, 0), Undef, Num(Epoch - 5), Num(Epoch - 4)),
     CorruptSession(Str(14, 0), JsArray(MixedMessages), Num(Epoch - 5), Num(Epoch - 3)),
     [id |-> S1, messages |-> MixedMessages, createdAt |-> Epoch - 5,
      lastActivity |-> Epoch - 3]}

\* what is stored under the session key of S1: nothing (0), a well-formed
\* session (1) or a corrupted one
SessionRecords ==
    {[stored |-> FALSE, value |-> Null],
     [stored |-> TRUE, value |-> [id |-> S1, messages |-> GoodMessages,
                                  createdAt |-> Epoch - 5, lastActivity |-> Epoch - 4]]}
    \cup {[stored |-> TRUE, value |-> c] : c \in CorruptedSessions}

\* the backups of S1: the messages backed up at Epoch - 3, Epoch - 2, ...
BackupHistories ==
    {<<>>, <<GoodMessages>>, <<GoodMessages, MixedMessages>>, <<MixedMessages, GoodMessages>>}

RECURSIVE StoreBackups(_, _, _)
StoreBackups(st, history, i) ==
    IF i > Len(history) THEN st
    ELSE StoreBackups(
           createSessionBackup(st, S1,
               [id |-> S1, messages |-> history[i], createdAt |-> Epoch - 5,
                lastActivity |-> Epoch - 3], Epoch - 4 + i),
           history, i + 1)

InitRecover ==
    /\ \E rec \in SessionRecords, history \in BackupHistories :
          LET st0 == StorageSet(EmptyStore, CurrentSessionKey, S1)
              st1 == IF rec.stored THEN StorageSet(st0, SessionKey(S1), rec.value) ELSE st0
          IN storage = StoreBackups(st1, history, 1)
    /\ InitRest

\* a direct call; the storage write of the recovery, and then that of the error
\* log, may fail
RecoverSession(corruptedData, writeFails, logFails) ==
    /\ lastCall.op = "none"
    /\ LET r == recoverCorruptedSession(storage, S1, corruptedData, now, nextRand)
           f == recoveryFailed(storage, S1, now, nextRand)
           fromBackup == r.used = 0
       IN /\ storage' = IF ~writeFails THEN r.st
                        ELSE IF logFails THEN storage ELSE f.st
          /\ nextRand' = nextRand + 1
          /\ lastCall' = [NoCall EXCEPT !.op = "recover", !.before = storage,
                                        !.after = storage',
                                        !.result = IF writeFails THEN f.data ELSE r.data]
    /\ UNCHANGED <<now, procs, opCount, lastPage, callLog,
                   restored, backupCalls, candidate, verdict, evicted, loggedKeys, browser>>

NextRecover ==
    \/ \E c \in CorruptedSessions, writeFails \in BOOLEAN, logFails \in BOOLEAN :
          RecoverSession(c, writeFails, logFails)
    \/ \E offset \in {0, 1}, limit \in {1, DEFAULT_LIMIT} :
          HandleGetMessages(<<>>, offset, limit)
    \/ Tick

SpecRecover == InitRecover /\ [][NextRecover]_vars

\* C13: recoverCorruptedSession does not raise and returns a session that
\* passes the structural session validation.
C13_RecoveryNeverThrows ==
    lastCall.op = "recover" =>
        /\ ~lastCall.raised
        /\ validateSessionData(lastCall.result)

\* C14: every message that getMessages returns passes validateMessageData.
C14_NoRawCorruption ==
    \A i \in 1..Len(lastPage.messages) : validateMessageData(lastPage.messages[i])

\* the backup of a session with the greatest timestamp in its key
LatestBackup(st, sessionId) ==
    CHOOSE k \in BackupsOf(st, sessionId) :
        \A j \in BackupsOf(st, sessionId) :
            extractTimestampFromBackupKey(j) <= extractTimestampFromBackupKey(k)

C16_QuotaInvariant ==
    \A p \in Procs :
        (procs[p].pc = "done" /\ checkStorageQuota(procs[p].pre))
        => getBytesInUse(storage) < STORAGE_LIMIT

-----------------------------------------------------------------------------
(* SpecErrors: logError called on an error log that is one or two entries
   short of its limit.  The two oldest entries were logged in the same
   millisecond; Math.random gave them their suffixes, in either order. *)

MaxRand == 3

\* the (timestamp, suffix) of the entries logged before the model starts
LoggedBefore(n, firstRand) ==
    [i \in 1..n |->
        IF i = 1 THEN <<Epoch - n, firstRand>>
        ELSE IF i = 2 THEN <<Epoch - n, 3 - firstRand>>
        ELSE <<Epoch - n + i - 2, 1>>]

\* the store after logError was called for each of the entries, fewer than
\* the limit, so that nothing was pruned
LogAll(entries) ==
    [k \in {ErrorKey(entries[i][1], entries[i][2]) : i \in 1..Len(entries)} |->
        [type |-> "save_message_failed", timestamp |-> k.parts[1]]]

InitErrors ==
    /\ \E n \in {MAX_ERROR_LOGS - 2, MAX_ERROR_LOGS - 1}, firstRand \in {1, 2} :
          /\ storage = LogAll(LoggedBefore(n, firstRand))
          /\ loggedKeys = [i \in 1..n |-> ErrorKey(LoggedBefore(n, firstRand)[i][1],
                                                   LoggedBefore(n, firstRand)[i][2])]
    /\ now = Epoch
    /\ nextRand = 1
    /\ procs = [p \in Procs |-> IdleProc]
    /\ opCount = 0
    /\ lastPage = NoPage
    /\ callLog = <<>>
    /\ restored = NoRestore
    /\ backupCalls = <<>>
    /\ candidate = Undef
    /\ verdict = "none"
    /\ evicted = {}
    /\ lastCall = NoCall
    /\ browser = NoBrowser

ErrorObject == [message |-> Str(10, 0), stack |-> Str(30, 0)]

\* a direct logError call; rand is the suffix Math.random gives the key
LogError(errorType, rand, error, failure) ==
    /\ opCount < MaxOps
    /\ ErrorKey(now, rand) \notin DOMAIN storage
    /\ opCount' = opCount + 1
    /\ LET r == logErrorOutcome(storage, errorType, now, rand, error, failure)
       IN /\ storage' = r.st
          /\ loggedKeys' = IF ErrorKey(now, rand) \in DOMAIN r.st
                           THEN Append(loggedKeys, ErrorKey(now, rand)) ELSE loggedKeys
          /\ lastCall' = [NoCall EXCEPT !.op = "logError", !.before = storage,
                                        !.after = r.st, !.raised = r.raised,
                                        !.result = [error |-> error, failure |-> failure]]
    /\ UNCHANGED <<now, nextRand, procs, lastPage, callLog,
                   restored, backupCalls, candidate, verdict, evicted, browser>>

NextErrors ==
    \/ \E rand \in 1..MaxRand :
          \/ \E error \in {ErrorObject, Null} :
                LogError("get_messages_failed", rand, error, "none")
          \/ \E failure \in {"write", "prune"} :
                LogError("get_messages_failed", rand, ErrorObject, failure)
    \/ Tick

SpecErrors == InitErrors /\ [][NextErrors]_vars

\* the last n elements of a sequence, as a set
LastOf(seq, n) == {seq[i] : i \in (IF Len(seq) > n THEN Len(seq) - n + 1 ELSE 1)..Len(seq)}

\* C17: after a logError call at most 50 error-log entries are stored, and
\* they are the 50 most recently logged ones.
C17_ErrorLogCap ==
    (lastCall.op = "logError" /\ lastCall.result.failure = "none") =>
        /\ Cardinality(KeysWithPrefix(storage, "error")) <= 50
        /\ KeysWithPrefix(storage, "error") = LastOf(loggedKeys, 50)

\* the store without its error log
WithoutErrors(st) == [k \in DOMAIN st \ KeysWithPrefix(st, "error") |-> st[k]]

\* C18: logError does not raise, whatever error value it is given and
\* whichever of its storage calls fails, and it leaves everything but the
\* error log as it was.
C18_LogErrorNeverThrows ==
    lastCall.op = "logError" =>
        /\ ~lastCall.raised
        /\ WithoutErrors(lastCall.after) = WithoutErrors(lastCall.before)

C18_Witness ==
    /\ lastCall.op = "logError"
    /\ lastCall.result.failure = "write"
    /\ lastCall.after = lastCall.before
    /\ ~lastCall.raised
    /\ Len(loggedKeys) > MAX_ERROR_LOGS

-----------------------------------------------------------------------------
(* The message listener and the handlers that answer in one stretch *)

SidebarVisibleKey == [p |-> "sidebarVisible", parts |-> <<>>]
SettingsKey == [p |-> "settings", parts |-> <<>>]
ImportBackupKey(ts) == [p |-> "import_backup", parts |-> <<ts>>]

\* tab ids: 0 stands for a sender without a tab (sender.tab?.id undefined)
NoTab == 0
OpenTabs == {1, 2}

\* sendResponse({ success: true }), ({ success: true, data }) and
\* ({ success: false, error: error.message })
Done == [success |-> TRUE]
Ok(data) == [success |-> TRUE, data |-> data]
Err(message) == [success |-> FALSE, error |-> message]

\* try { ...; sendResponse(response) } catch (error) { sendResponse(error) }:
\* the store and the calls of sendResponse when the body ran through, and when
\* it threw with the store at failedSt
TryCatch(thrown, st, response, failedSt, message) ==
    IF thrown THEN [st |-> failedSt, responses |-> <<Err(message)>>]
    ELSE [st |-> st, responses |-> <<response>>]

\* the visibility that handleGetSidebarState reports for a tab
SidebarVisible(st, tabId) ==
    IF tabId # NoTab /\ TabStateKey(tabId) \in DOMAIN st
    THEN st[TabStateKey(tabId)].visible
    ELSE IF SidebarVisibleKey \in DOMAIN st THEN st[SidebarVisibleKey] ELSE FALSE

\* failure: "none", or the storage call that throws ("first", "second")
handleGetSidebarState(st, tabId, failure) ==
    TryCatch(failure # "none", st, Ok([visible |-> SidebarVisible(st, tabId), tabId |-> tabId]),
             st, "storage failure")

handleSetSidebarState(st, visible, tabId, t, failure) ==
    LET st1 == StorageSet(st, SidebarVisibleKey, visible)
        st2 == IF tabId # NoTab
               THEN StorageSet(st1, TabStateKey(tabId), [visible |-> visible, lastUpdate |-> t])
               ELSE st1
    IN TryCatch(failure = "first" \/ (failure = "second" /\ tabId # NoTab),
                st2, Ok([visible |-> visible, tabId |-> tabId]),
                IF failure = "first" THEN st ELSE st1, "storage failure")

handleToggleSidebar(st, visible, tabId, t, failure) ==
    LET st1 == StorageSet(st, SidebarVisibleKey, visible)
        st2 == IF tabId # NoTab
               THEN StorageSet(st1, TabStateKey(tabId), [visible |-> visible, lastUpdate |-> t])
               ELSE st1
    IN TryCatch(failure = "first" \/ (failure = "second" /\ tabId # NoTab),
                st2, Ok([visible |-> visible, tabId |-> tabId]),
                IF failure = "first" THEN st ELSE st1, "storage failure")

handleCreateSession(st, t, rand, failure) ==
    TryCatch(failure # "none",
             StorageSet(st, CurrentSessionKey, generateSessionId(t, rand)),
             Ok([sessionId |-> generateSessionId(t, rand)]), st, "storage failure")

handleSidebarReady(st) == TryCatch(FALSE, st, Done, st, "")

\* errorData is the data of the request: reading errorData.type throws when
\* the request has none; logError itself does not throw
handleErrorReport(st, errorData, t, rand, failure) ==
    TryCatch(errorData \in {Null, Undef},
             logErrorOutcome(st, "content_script_error", t, rand, ErrorObject,
                             IF failure = "first" THEN "write"
                             ELSE IF failure = "second" THEN "prune" ELSE "none").st,
             Done, st, "Cannot read properties of undefined")

\* 30 * 24 * 60 * 60 * 1000 milliseconds, written in seconds: the clock of the
\* model counts from Epoch and the period in milliseconds is beyond the
\* integers of the model checker
THIRTY_DAYS == 30 * 24 * 60 * 60

\* removes the sessions whose last activity is more than 30 days back
performMaintenanceCleanup(st, t) ==
    StorageRemove(st, {k \in KeysWithPrefix(st, "session") :
                          st[k].lastActivity # 0 /\ st[k].lastActivity < t - THIRTY_DAYS})

\* removes the state of the tabs that are no longer open
cleanupTabStates(st, tabs) ==
    StorageRemove(st, {k \in KeysWithPrefix(st, "tabState") : k.parts[1] \notin tabs})

handleGetStorageInfo(st, failure) ==
    TryCatch(failure # "none", st,
             Ok([usedBytes |-> getBytesInUse(st),
                 sessions |-> Cardinality(KeysWithPrefix(st, "session")),
                 backups |-> Cardinality(KeysWithPrefix(st, "backup")),
                 errors |-> Cardinality(KeysWithPrefix(st, "error"))]),
             st, "storage failure")

\* the session id that the cleanup loops take from a backup key:
\* key.split('_')[1], the word after 'backup'
BackupGroup(key) == <<key.parts[1]>>

RECURSIVE CleanupBackupGroups(_, _)
CleanupBackupGroups(st, groups) ==
    IF groups = {} THEN st
    ELSE LET g == CHOOSE x \in groups : TRUE
         IN CleanupBackupGroups(cleanupOldBackups(st, g), groups \ {g})

handleCleanupStorage(st, t, failure) ==
    LET st1 == cleanupTabStates(performMaintenanceCleanup(st, t), OpenTabs)
        groups == {BackupGroup(k) : k \in KeysWithPrefix(st1, "backup")}
        st2 == CleanupBackupGroups(st1, groups)
    IN TryCatch(failure # "none", st2,
                Ok([freedBytes |-> getBytesInUse(st) - getBytesInUse(st2)]),
                st1, "storage failure")

SettingKeys == {SettingsKey, CurrentSessionKey, SidebarVisibleKey}

exportAllUserData(st, t) ==
    [exportedAt |-> t,
     sessions |-> [k \in KeysWithPrefix(st, "session") |-> st[k]],
     settings |-> [k \in DOMAIN st \cap SettingKeys |-> st[k]]]

handleExportData(st, t, failure) ==
    TryCatch(failure # "none", st, Ok(exportAllUserData(st, t)), st, "storage failure")

\* the entries of one object written over a store
Merge(st, entries) ==
    [k \in DOMAIN st \cup DOMAIN entries |-> IF k \in DOMAIN entries THEN entries[k] ELSE st[k]]

\* importData: undefined, or an object with exportedAt and the maps sessions
\* (key -> session object) and settings (key -> value); any of the three may
\* be missing.  An import that throws logs the error before it answers.
handleImportData(st, importData, t, rand, failure) ==
    LET malformed == \/ IsPrimitive(importData)
                     \/ "sessions" \notin DOMAIN importData
                     \/ "exportedAt" \notin DOMAIN importData
        st1 == StorageSet(st, ImportBackupKey(t), exportAllUserData(st, t))
        validSessions == {k \in DOMAIN importData.sessions :
                             validateSessionData(importData.sessions[k])}
        st2 == Merge(st1, [k \in validSessions |-> importData.sessions[k]])
        st3 == IF "settings" \in DOMAIN importData THEN Merge(st2, importData.settings)
               ELSE st2
    IN IF malformed
       THEN TryCatch(TRUE, st, Done,
                     logError(st, "data_import_failed", t, rand), "Invalid import data")
       ELSE TryCatch(failure # "none", st3,
                     Ok([importedSessions |-> Cardinality(DOMAIN importData.sessions)]),
                     logError(IF failure = "first" THEN st ELSE st1,
                              "data_import_failed", t, rand),
                     "storage failure")

TabOf(message) == IF "tabId" \in DOMAIN message THEN message.tabId ELSE NoTab
DataOf(message) == IF "data" \in DOMAIN message THEN message.data ELSE Undef
VisibleOf(message) == "visible" \in DOMAIN message /\ message.visible
\* the action of a request, "" when the request has none
ActionOf(message) ==
    IF IsPrimitive(message) \/ "action" \notin DOMAIN message THEN "" ELSE message.action

\* The listener: the store and the calls of sendResponse that a request leads
\* to.  saveMessage and getMessages are answered here only when the read of
\* currentSession throws; their handlers are the actions HandleSaveMessage
\* and HandleGetMessages.
onMessage(st, message, t, rand, failure) ==
    IF ActionOf(message) = ""
    THEN [st |-> st, responses |-> <<Err("Invalid message format")>>]
    ELSE CASE message.action = "getSidebarState" ->
                handleGetSidebarState(st, TabOf(message), failure)
           [] message.action = "setSidebarState" ->
                handleSetSidebarState(st, VisibleOf(message), TabOf(message), t, failure)
           [] message.action = "toggleSidebar" ->
                handleToggleSidebar(st, VisibleOf(message), TabOf(message), t, failure)
           [] message.action \in {"saveMessage", "getMessages"} ->
                TryCatch(TRUE, st, Done, st, "storage failure")
           [] message.action = "createSession" -> handleCreateSession(st, t, rand, failure)
           [] message.action = "sidebarReady" -> handleSidebarReady(st)
           [] message.action = "ping" -> [st |-> st, responses |-> <<[success |-> TRUE, timestamp |-> t]>>]
           [] message.action = "reportError" ->
                handleErrorReport(st, DataOf(message), t, rand, failure)
           [] message.action = "getStorageInfo" -> handleGetStorageInfo(st, failure)
           [] message.action = "exportData" -> handleExportData(st, t, failure)
           [] message.action = "importData" ->
                handleImportData(st, DataOf(message), t, rand, failure)
           [] message.action = "cleanupStorage" -> handleCleanupStorage(st, t, failure)
           [] OTHER -> [st |-> st, responses |-> <<Err("Unknown action")>>]

-----------------------------------------------------------------------------
(* SpecRequests: requests of every action, from two tabs and from a sender
   without a tab, with and without a failing storage call, one at a time *)

MaxRequests == 2

\* the store after installation, a session of two messages with a backup, and
\* the state of a tab that was closed since
InstalledStore ==
    LET st0 == StorageSet(StorageSet(StoreWith(S1, 2, 5), SidebarVisibleKey, FALSE),
                          SettingsKey, [theme |-> "light"])
        st1 == createSessionBackup(st0, S1, StoredSession(S1, 2, 5), Epoch - 1)
    IN StorageSet(st1, TabStateKey(9), [visible |-> TRUE, lastUpdate |-> Epoch - 9])

ImportPayloads ==
    {Undef,
     [exportedAt |-> Epoch - 3],
     [exportedAt |-> Epoch - 3,
      sessions |-> [k \in {SessionKey(S2)} |-> StoredSession(S2, 1, 5)],
      settings |-> [k \in {SidebarVisibleKey} |-> TRUE]]}

Requests ==
    {Undef, [tabId |-> 1]}
    \cup {[action |-> a, tabId |-> 1] :
            a \in {"ping", "sidebarReady", "createSession", "getStorageInfo", "exportData",
                   "cleanupStorage", "saveMessage", "getMessages", "invalidAction"}}
    \cup {[action |-> "getSidebarState", tabId |-> tab] : tab \in OpenTabs \cup {NoTab}}
    \cup {[action |-> a, tabId |-> tab, visible |-> v] :
            a \in {"setSidebarState", "toggleSidebar"}, tab \in OpenTabs \cup {NoTab},
            v \in BOOLEAN}
    \cup {[action |-> "reportError", tabId |-> 1, data |-> d] :
            d \in {Undef, [type |-> "render_failed"]}}
    \cup {[action |-> "importData", tabId |-> 1, data |-> d] : d \in ImportPayloads}

InitRequests ==
    /\ storage = InstalledStore
    /\ InitRest

\* a request that the listener answers in one stretch
OnMessage(message, failure) ==
    /\ opCount < MaxRequests
    /\ NoneInFlight
    /\ ActionOf(message) \in {"saveMessage", "getMessages"} => failure = "first"
    /\ opCount' = opCount + 1
    /\ LET r == onMessage(storage, message, now, nextRand, failure)
       IN /\ storage' = r.st
          /\ lastCall' = [NoCall EXCEPT !.op = "request", !.before = storage,
                                        !.after = r.st,
                                        !.result = [message |-> message, failure |-> failure,
                                                    responses |-> r.responses]]
    /\ nextRand' = nextRand + 1
    /\ UNCHANGED <<now, procs, lastPage, callLog,
                   restored, backupCalls, candidate, verdict, evicted, loggedKeys, browser>>

NextRequests ==
    \/ \E message \in Requests, failure \in {"none", "first", "second"} :
          OnMessage(message, failure)
    \/ \E md \in {UserText, BlankText} :
          opCount < MaxRequests /\ NoneInFlight /\ HandleSaveMessage(1, md)
    \/ SaveSteps(1)
    \/ opCount < MaxRequests /\ NoneInFlight /\ GetMessages
    \/ Tick

SpecRequests == InitRequests /\ [][NextRequests]_vars

\* C20: a setSidebarState or toggleSidebar request of a tab sets the
\* visibility that getSidebarState reports for that tab, and changes the
\* visibility reported for no other tab.
C20_TabIsolation ==
    [][(/\ lastCall'.op = "request"
        /\ opCount' # opCount
        /\ procs' = procs
        /\ lastPage' = lastPage
        /\ ActionOf(lastCall'.result.message) \in {"setSidebarState", "toggleSidebar"}
        /\ TabOf(lastCall'.result.message) \in OpenTabs)
       => LET message == lastCall'.result.message
          IN \A tab \in OpenTabs :
                IF tab = TabOf(message)
                THEN lastCall'.result.responses[1].success
                        => SidebarVisible(storage', tab) = VisibleOf(message)
                ELSE SidebarVisible(storage', tab) = SidebarVisible(storage, tab)]_vars

\* a response of the form {success, data?, error?}
IsResponse(response) ==
    /\ "success" \in DOMAIN response
    /\ DOMAIN response \subseteq {"success", "data", "error"}
    /\ response.success \in BOOLEAN
    /\ "error" \in DOMAIN response => response.error \in STRING

\* C19: every request gets exactly one response, and the response has the
\* form {success, data?, error?}, also when a storage call fails; a request
\* with an unknown action gets {success: false, error: "Unknown action"} and
\* leaves the store as it was; a saveMessage request has no response while it
\* is being handled and one when it is done.
C19_OneResponse ==
    /\ lastCall.op = "request"
         => /\ Len(lastCall.result.responses) = 1
            /\ IsResponse(lastCall.result.responses[1])
            /\ ActionOf(lastCall.result.message) = "invalidAction"
                 => /\ lastCall.result.responses[1] = Err("Unknown action")
                    /\ lastCall.after = lastCall.before
    /\ \A p \in Procs : procs[p].pc = "done" <=> procs[p].response \in {"success", "error"}

-----------------------------------------------------------------------------
(* SpecSweep: the periodic tab-state sweep, one action per stretch of
   cleanupTabStates between two awaits, among tabs that open, close and set
   their sidebar state *)

MaxTabs == 2

SetBrowser(field, value) == browser' = [browser EXCEPT ![field] = value]

\* chrome.tabs.onCreated: a tab opens
TabCreated(tab) ==
    /\ tab \notin browser.tabs
    /\ SetBrowser("tabs", browser.tabs \cup {tab})
    /\ UNCHANGED <<storage, now, nextRand, procs, opCount, lastPage, callLog,
                   restored, backupCalls, candidate, verdict, evicted, lastCall, loggedKeys>>

\* chrome.tabs.onRemoved: a tab closes and its state is removed
TabRemoved(tab) ==
    /\ tab \in browser.tabs
    /\ SetBrowser("tabs", browser.tabs \ {tab})
    /\ storage' = StorageRemove(storage, {TabStateKey(tab)})
    /\ UNCHANGED <<now, nextRand, procs, opCount, lastPage, callLog,
                   restored, backupCalls, candidate, verdict, evicted, lastCall, loggedKeys>>

\* a setSidebarState request of an open tab
TabSetsState(tab, visible) ==
    /\ tab \in browser.tabs
    /\ OnMessage([action |-> "setSidebarState", tabId |-> tab, visible |-> visible], "none")

\* await chrome.tabs.query({})
SweepQuery ==
    /\ browser.sweep.pc = "idle"
    /\ SetBrowser("sweep", [NoSweep EXCEPT !.pc = "queried", !.tabs = browser.tabs])
    /\ UNCHANGED <<storage, now, nextRand, procs, opCount, lastPage, callLog,
                   restored, backupCalls, candidate, verdict, evicted, lastCall, loggedKeys>>

\* await chrome.storage.local.get(), then the loop that fills keysToRemove
SweepRead ==
    /\ browser.sweep.pc = "queried"
    /\ SetBrowser("sweep",
                  [browser.sweep EXCEPT
                      !.pc = "read",
                      !.keys = {k \in KeysWithPrefix(storage, "tabState") :
                                   k.parts[1] \notin browser.sweep.tabs}])
    /\ UNCHANGED <<storage, now, nextRand, procs, opCount, lastPage, callLog,
                   restored, backupCalls, candidate, verdict, evicted, lastCall, loggedKeys>>

\* await chrome.storage.local.remove(keysToRemove) when there is a key to remove
SweepRemove ==
    /\ browser.sweep.pc = "read"
    /\ SetBrowser("sweep", NoSweep)
    /\ storage' = StorageRemove(storage, browser.sweep.keys)
    /\ lastCall' = [NoCall EXCEPT !.op = "cleanupTabStates", !.before = storage,
                                  !.after = storage',
                                  !.result = [tabs |-> browser.sweep.tabs,
                                              live |-> browser.tabs]]
    /\ UNCHANGED <<now, nextRand, procs, opCount, lastPage, callLog,
                   restored, backupCalls, candidate, verdict, evicted, loggedKeys>>

InitSweep ==
    /\ storage = StorageSet(InstalledStore, TabStateKey(1),
                            [visible |-> TRUE, lastUpdate |-> Epoch - 1])
    /\ InitWorker
    /\ browser = [NoBrowser EXCEPT !.tabs = {1}]

NextSweep ==
    \/ \E tab \in 1..MaxTabs : TabCreated(tab)
    \/ \E tab \in 1..MaxTabs : TabRemoved(tab)
    \/ \E tab \in 1..MaxTabs, visible \in BOOLEAN : TabSetsState(tab, visible)
    \/ SweepQuery
    \/ SweepRead
    \/ SweepRemove

SpecSweep == InitSweep /\ [][NextSweep]_vars

\* the tab-state entries of a store whose tab is not among the given tabs
StaleTabStates(st, tabs) ==
    {k \in KeysWithPrefix(st, "tabState") : k.parts[1] \notin tabs}

\* C21: a sweep removes exactly the tab-state entries whose tab is not
\* among the live tabs, leaves every other key as it was, and a second sweep
\* with the same live tabs removes nothing.
C21_SweepExact ==
    lastCall.op = "cleanupTabStates"
      => /\ DOMAIN lastCall.after
              = DOMAIN lastCall.before \ StaleTabStates(lastCall.before, lastCall.result.live)
         /\ \A k \in DOMAIN lastCall.after : lastCall.after[k] = lastCall.before[k]
         /\ cleanupTabStates(lastCall.after, lastCall.result.live) = lastCall.after

-----------------------------------------------------------------------------
(* The retry wrappers.  The outcome of an attempt is "ok" or the message of
   the error that chrome.storage.local raised. *)

maxRetries == 3

QuotaMessage == "QUOTA_EXCEEDED"

\* error.message.includes('QUOTA_EXCEEDED')
IsQuotaError(message) == message = QuotaMessage

NoError == [message |-> "", cause |-> ""]

\* new Error(`${message}: ${cause}`)
ErrorWith(message, cause) == [message |-> message, cause |-> cause]

RECURSIVE getAttempt(_, _)
getAttempt(outcomes, attempt) ==
    IF outcomes[attempt] = "ok"
    THEN [ok |-> TRUE, attempts |-> attempt, error |-> NoError]
    ELSE IF attempt = maxRetries
         THEN [ok |-> FALSE, attempts |-> attempt,
               error |-> ErrorWith("Storage get failed after 3 attempts", outcomes[attempt])]
         ELSE getAttempt(outcomes, attempt + 1)

\* whether the read came through, the attempts made and the error raised
getStorageWithRetry(outcomes) == getAttempt(outcomes, 1)

RECURSIVE setAttempt(_, _, _, _, _)
setAttempt(st, data, outcomes, attempt, t) ==
    IF outcomes[attempt] = "ok"
    THEN [st |-> Merge(st, data), ok |-> TRUE, attempts |-> attempt, error |-> NoError,
          cleanups |-> 0]
    ELSE LET quota == IsQuotaError(outcomes[attempt])
             st1 == IF quota THEN performEmergencyCleanup(st, t) ELSE st
         IN IF attempt = maxRetries
            THEN [st |-> st1, ok |-> FALSE, attempts |-> attempt,
                  error |-> IF quota
                            THEN ErrorWith("Storage quota exceeded and emergency cleanup failed",
                                           "")
                            ELSE ErrorWith("Storage set failed after 3 attempts",
                                           outcomes[attempt]),
                  cleanups |-> IF quota THEN 1 ELSE 0]
            ELSE LET r == setAttempt(st1, data, outcomes, attempt + 1, t)
                 IN [r EXCEPT !.cleanups = @ + IF quota THEN 1 ELSE 0]

\* the store afterwards, whether the write came through, the attempts made,
\* the error raised and the number of emergency cleanups run
setStorageWithRetry(st, data, outcomes, t) == setAttempt(st, data, outcomes, 1, t)

-----------------------------------------------------------------------------
(* SpecRetry: reads and writes through the retry wrappers, with every
   combination of failing attempts *)

ReadOutcomes == [1..maxRetries -> {"ok", "IO error", "Lock error"}]
WriteOutcomes == [1..maxRetries -> {"ok", "IO error", QuotaMessage}]

InitRetry ==
    /\ \/ storage = InstalledStore
       \/ \E order \in 1..2 : storage = WithLogsAndTabs(EvictStore(5, order))
    /\ InitRest

GetWithRetry(outcomes) ==
    /\ opCount < MaxRequests
    /\ opCount' = opCount + 1
    /\ LET r == getStorageWithRetry(outcomes)
       IN lastCall' = [NoCall EXCEPT !.op = "getStorageWithRetry", !.before = storage,
                                     !.after = storage, !.raised = ~r.ok,
                                     !.result = [outcomes |-> outcomes,
                                                 attempts |-> r.attempts,
                                                 error |-> r.error, cleanups |-> 0]]
    /\ UNCHANGED <<storage, now, nextRand, procs, lastPage, callLog,
                   restored, backupCalls, candidate, verdict, evicted, loggedKeys, browser>>

SetWithRetry(tab, outcomes) ==
    /\ opCount < MaxRequests
    /\ opCount' = opCount + 1
    /\ LET data == [k \in {TabStateKey(tab)} |-> [visible |-> TRUE, lastUpdate |-> now]]
           r == setStorageWithRetry(storage, data, outcomes, now)
       IN /\ storage' = r.st
          /\ lastCall' = [NoCall EXCEPT !.op = "setStorageWithRetry", !.before = storage,
                                        !.after = r.st, !.raised = ~r.ok,
                                        !.result = [outcomes |-> outcomes,
                                                    attempts |-> r.attempts,
                                                    error |-> r.error,
                                                    cleanups |-> r.cleanups]]
    /\ UNCHANGED <<now, nextRand, procs, lastPage, callLog,
                   restored, backupCalls, candidate, verdict, evicted, loggedKeys, browser>>

NextRetry ==
    \/ \E outcomes \in ReadOutcomes : GetWithRetry(outcomes)
    \/ \E tab \in 1..MaxTabs, outcomes \in WriteOutcomes : SetWithRetry(tab, outcomes)
    \/ Tick

SpecRetry == InitRetry /\ [][NextRetry]_vars

\* C28: a read or write through the retry wrapper makes at most 3 attempts,
\* returns on the first attempt that succeeds, raises when all 3 fail, and
\* the error raised carries the message of the last failure; every write
\* attempt that fails on quota is followed by one emergency cleanup.
C28_RetryWrapper ==
    lastCall.op \in {"getStorageWithRetry", "setStorageWithRetry"}
      => LET r == lastCall.result
         IN /\ r.attempts \in 1..maxRetries
            /\ \A i \in 1..(r.attempts - 1) : r.outcomes[i] # "ok"
            /\ lastCall.raised <=> r.outcomes[r.attempts] # "ok"
            /\ lastCall.raised
                 => /\ r.attempts = maxRetries
                    /\ r.error.cause = r.outcomes[maxRetries]
            /\ r.cleanups = Cardinality({i \in 1..r.attempts : IsQuotaError(r.outcomes[i])})

\* C29: a saveMessage handler calls performEmergencyCleanup only right
\* after it called cleanupOldSessions and the store was still over quota.
C29_EmergencyAfterStandard ==
    \A p \in Procs :
       \A i \in 1..Len(procs[p].cleanups) :
          procs[p].cleanups[i] = "performEmergencyCleanup"
             => i > 1 /\ procs[p].cleanups[i - 1] = "cleanupOldSessions"

-----------------------------------------------------------------------------
(* The extension icon.  A URL is modelled by what new URL(url) gives for it:
   protocol, hostname, pathname and port; parses is whether new URL(url)
   returns, empty whether the string is empty. *)

Url(protocol, hostname, pathname, port) ==
    [protocol |-> protocol, hostname |-> hostname, pathname |-> pathname, port |-> port,
     parses |-> TRUE, empty |-> FALSE]

NoUrl == [Url("", "", "", "") EXCEPT !.parses = FALSE, !.empty = TRUE]
BadUrl == [Url("", "", "", "") EXCEPT !.parses = FALSE]
WebUrl == Url("https:", "example.com", "/", "")

restrictedProtocols ==
    {"chrome:", "chrome-extension:", "moz-extension:", "file:", "about:", "data:",
     "javascript:"}

\* urlObj.hostname.includes(domain), for the hostnames of Urls
HostIncludes(hostname, domain) == hostname \in {domain, "www." \o domain}

\* urlObj.pathname.startsWith(path), for the pathnames of Urls
PathStartsWith(pathname, path) == pathname \in {path, path \o "page"}

canInjectContentScript(url) ==
    IF url.empty THEN FALSE
    ELSE IF ~url.parses THEN FALSE
    ELSE IF url.protocol \in restrictedProtocols THEN FALSE
    ELSE IF \E domain \in {"chrome.google.com", "chromewebstore.google.com"} :
               HostIncludes(url.hostname, domain) THEN FALSE
    ELSE IF \E path \in {"/chrome/", "/edge/", "/browser/"} :
               PathStartsWith(url.pathname, path) THEN FALSE
    ELSE IF url.hostname = "localhost" /\ url.port \in {"9222", "9229"} THEN FALSE
    ELSE TRUE

\* tab: [id, url, status]
checkAndHandleInjection(tab) ==
    IF tab.url.empty THEN [success |-> FALSE, reason |-> "No URL available"]
    ELSE IF ~canInjectContentScript(tab.url)
    THEN IF ~tab.url.parses
         THEN \* new URL(tab.url) throws
              [success |-> FALSE, reason |-> "Error checking page compatibility"]
         ELSE [success |-> FALSE,
               reason |->
                  IF tab.url.protocol = "chrome:"
                  THEN "Chat sidebar cannot be used on Chrome internal pages (chrome://)"
                  ELSE IF tab.url.protocol = "file:"
                  THEN "Chat sidebar cannot be used on local files (file://)"
                  ELSE IF tab.url.protocol = "chrome-extension:"
                  THEN "Chat sidebar cannot be used on extension pages"
                  ELSE IF HostIncludes(tab.url.hostname, "chrome.google.com")
                  THEN "Chat sidebar cannot be used on Chrome Web Store pages"
                  ELSE "Restricted page"]
    ELSE IF tab.status # "complete"
    THEN [success |-> FALSE, reason |-> "Page is still loading"]
    ELSE [success |-> TRUE, reason |-> "Page supports content script injection"]

\* reason.includes('Chrome internal pages') || ... || reason.includes('Chrome Web Store')
isExpectedRestriction(reason) ==
    reason \in {"Chat sidebar cannot be used on Chrome internal pages (chrome://)",
                "Chat sidebar cannot be used on local files (file://)",
                "Chat sidebar cannot be used on extension pages",
                "Chat sidebar cannot be used on Chrome Web Store pages"}

\* the store afterwards and the severity the click was recorded at
showInjectionError(st, reason, t, rand) ==
    IF isExpectedRestriction(reason)
    THEN [st |-> st, severity |-> "info"]
    ELSE [st |-> logError(st, "injection_failed", t, rand), severity |-> "error"]

showCommunicationError(st, t, rand) == logError(st, "communication_failed", t, rand)

\* The content script of a page: script is whether it listens, container
\* whether the sidebar element exists, visible whether the element has the
\* class 'visible', animating whether a show or hide transition is running.
Page(url, status, script) ==
    [url |-> url, status |-> status, script |-> script, container |-> FALSE,
     visible |-> FALSE, animating |-> FALSE]

showSidebar(page) ==
    IF page.animating THEN page
    ELSE [page EXCEPT !.container = TRUE, !.visible = TRUE, !.animating = TRUE]

\* the page afterwards and whether toggleSidebar {visible: false} was sent on
hideSidebar(page) ==
    IF page.animating THEN [page |-> page, sent |-> FALSE]
    ELSE [page |-> IF page.container
                   THEN [page EXCEPT !.visible = FALSE, !.animating = TRUE]
                   ELSE page,
          sent |-> TRUE]

\* the content script's handler of toggleSidebar and setSidebarState; the
\* message that hideSidebar sends is handled by handleToggleSidebar
contentOnMessage(st, page, tabId, visible, t) ==
    IF visible THEN [st |-> st, page |-> showSidebar(page)]
    ELSE LET h == hideSidebar(page)
         IN [st |-> IF h.sent THEN handleToggleSidebar(st, FALSE, tabId, t, "none").st
                    ELSE st,
             page |-> h.page]

\* chrome.action.onClicked: the store and the page afterwards, the command
\* sent to the tab ("show", "hide" or "none") and the severity recorded
onClicked(st, tab, page, t, rand) ==
    LET injectionResult == checkAndHandleInjection(tab)
    IN IF ~injectionResult.success
       THEN LET shown == showInjectionError(st, injectionResult.reason, t, rand)
            IN [st |-> shown.st, page |-> page, command |-> "none",
                severity |-> shown.severity]
       ELSE LET isVisible == SidebarVisibleKey \in DOMAIN st /\ st[SidebarVisibleKey]
                newState == ~isVisible
                st1 == StorageSet(st, SidebarVisibleKey, newState)
            IN IF page.script
               THEN LET r == contentOnMessage(st1, page, tab.id, newState, t)
                    IN [st |-> r.st, page |-> r.page,
                        command |-> IF newState THEN "show" ELSE "hide",
                        severity |-> "none"]
               ELSE [st |-> showCommunicationError(
                               StorageSet(st1, SidebarVisibleKey, FALSE), t, rand),
                     page |-> page, command |-> "none", severity |-> "error"]

-----------------------------------------------------------------------------
(* SpecClicks: icon clicks and tab switches over several tabs *)

Urls ==
    {NoUrl, BadUrl, WebUrl,
     Url("chrome:", "settings", "/", ""),
     Url("chrome-extension:", "abcdef", "/popup.html", ""),
     Url("moz-extension:", "abcdef", "/popup.html", ""),
     Url("file:", "", "/home/page.html", ""),
     Url("about:", "", "blank", ""),
     Url("data:", "", "text/html,hello", ""),
     Url("javascript:", "", "void(0)", ""),
     Url("https:", "chrome.google.com", "/webstore", ""),
     Url("https:", "chromewebstore.google.com", "/", ""),
     Url("https:", "example.com", "/chrome/", ""),
     Url("http:", "localhost", "/", "9222")}

FirstPages ==
    {Page(url, "complete", canInjectContentScript(url)) : url \in Urls}
    \cup {Page(WebUrl, "loading", TRUE), Page(WebUrl, "complete", FALSE)}

InitClicks ==
    /\ storage = InstalledStore
    /\ InitWorker
    /\ \E first \in FirstPages :
          browser = [NoBrowser EXCEPT
                        !.tabs = 1..MaxTabs,
                        !.active = 1,
                        !.pages = [tab \in 1..MaxTabs |->
                                      IF tab = 1 THEN first
                                      ELSE Page(WebUrl, "complete", TRUE)]]

\* a click on the extension icon, which reaches the tab in front
IconClick ==
    /\ opCount < MaxOps
    /\ opCount' = opCount + 1
    /\ LET tabId == browser.active
           page == browser.pages[tabId]
           r == onClicked(storage, [id |-> tabId, url |-> page.url, status |-> page.status],
                          page, now, nextRand)
       IN /\ storage' = r.st
          /\ SetBrowser("pages", [browser.pages EXCEPT ![tabId] = r.page])
          /\ lastCall' = [NoCall EXCEPT !.op = "onClicked", !.before = storage,
                                        !.after = r.st,
                                        !.result = [tabId |-> tabId, page |-> page,
                                                    command |-> r.command,
                                                    severity |-> r.severity]]
    /\ nextRand' = nextRand + 1
    /\ UNCHANGED <<now, procs, lastPage, callLog,
                   restored, backupCalls, candidate, verdict, evicted, loggedKeys>>

\* the user brings another tab to the front
TabSwitch(tab) ==
    /\ tab \in browser.tabs
    /\ tab # browser.active
    /\ SetBrowser("active", tab)
    /\ UNCHANGED <<storage, now, nextRand, procs, opCount, lastPage, callLog,
                   restored, backupCalls, candidate, verdict, evicted, lastCall, loggedKeys>>

\* the timer that ends a show or hide transition
AnimationEnd(tab) ==
    /\ tab \in browser.tabs
    /\ browser.pages[tab].animating
    /\ SetBrowser("pages", [browser.pages EXCEPT ![tab].animating = FALSE])
    /\ UNCHANGED <<storage, now, nextRand, procs, opCount, lastPage, callLog,
                   restored, backupCalls, candidate, verdict, evicted, lastCall, loggedKeys>>

NextClicks ==
    \/ IconClick
    \/ \E tab \in 1..MaxTabs : TabSwitch(tab)
    \/ \E tab \in 1..MaxTabs : AnimationEnd(tab)
    \/ Tick

SpecClicks == InitClicks /\ [][NextClicks]_vars

\* C23: an icon click on a page that does not permit injection adds no entry
\* to the error log, is recorded at informational severity and leaves the
\* global sidebarVisible flag as it was.
C23_RestrictionIsInfo ==
    (lastCall.op = "onClicked" /\ ~canInjectContentScript(lastCall.result.page.url))
      => /\ KeysWithPrefix(lastCall.after, "error") = KeysWithPrefix(lastCall.before, "error")
         /\ lastCall.result.severity = "info"
         /\ lastCall.after[SidebarVisibleKey] = lastCall.before[SidebarVisibleKey]

\* C24: an icon click in a tab whose page takes the sidebar sends the tab
\* the negation of its current visibility: a closed sidebar is opened and an
\* open one is closed.
C24_ClickToggles ==
    (/\ lastCall.op = "onClicked"
     /\ checkAndHandleInjection([id |-> lastCall.result.tabId,
                                 url |-> lastCall.result.page.url,
                                 status |-> lastCall.result.page.status]).success
     /\ lastCall.result.page.script)
      => /\ lastCall.result.command
              = IF lastCall.result.page.visible THEN "hide" ELSE "show"
         /\ lastCall.result.page.animating
            \/ browser.pages[lastCall.result.tabId].visible = ~lastCall.result.page.visible

-----------------------------------------------------------------------------
(* SpecSessions: one sidebar that saves, reads and starts new sessions, from
   a store in which the installation write failed or the current session
   has no record yet *)

InitSessions ==
    /\ \/ storage = EmptyStore
       \/ \E n \in 0..MaxStored : storage = StoreWith(S1, n, 5)
    /\ InitRest

NextSessions ==
    \/ \E md \in {UserText, BlankText} : NoneInFlight /\ HandleSaveMessage(1, md)
    \/ SaveSteps(1)
    \/ NoneInFlight /\ OnMessage([action |-> "createSession", tabId |-> 1], "none")
    \/ NoneInFlight /\ GetMessages
    \/ Tick

SpecSessions == InitSessions /\ [][NextSessions]_vars

\* the session of a handler's request exists in the store under its id and
\* is the current session; when the session had no record when the request
\* arrived, its messages are exactly the saved message and createdAt and
\* lastActivity are set
SessionWritten(st, proc) ==
    LET sessionKey == SessionKey(proc.sessionId)
    IN /\ sessionKey \in DOMAIN st
       /\ st[sessionKey].id = proc.sessionId
       /\ CurrentSessionKey \in DOMAIN st
       /\ st[CurrentSessionKey] = proc.sessionId
       /\ sessionKey \notin DOMAIN proc.pre
            => /\ st[sessionKey].messages = <<proc.message>>
               /\ st[sessionKey].createdAt > 0
               /\ st[sessionKey].lastActivity >= st[sessionKey].createdAt

\* C25: when a saveMessage request responds success, the session of the
\* request exists under its id and currentSession is that id; a session that
\* had no record before the request holds exactly the saved message, with
\* createdAt and lastActivity set.
C25_LazyCreate ==
    [][\A p \in Procs :
          (procs[p].pc = "backup" /\ procs'[p].pc = "done" /\ procs'[p].response = "success")
             => SessionWritten(storage', procs'[p])]_vars

C25_Witness ==
    /\ Succeeded(1)
    /\ CurrentSessionKey \notin DOMAIN procs[1].pre
    /\ SessionKey(procs[1].sessionId) \notin DOMAIN procs[1].pre
    /\ storage[CurrentSessionKey] = procs[1].sessionId

-----------------------------------------------------------------------------
(* SpecCrowded: saves to the current session while a second session is
   stored, in a store within the quota and in one over it *)

CrowdedLength == 480

\* the current session S1 of n messages and the session S2 of m messages
TwoSessions(n, m, len) ==
    StorageSet(StoreWith(S1, n, len), SessionKey(S2), StoredSession(S2, m, len))

\* the current session S1, which fills the quota, and four small sessions
CrowdedStore(order) ==
    Merge(StoreWith(S1, CrowdedLength, MAX_CONTENT_LENGTH), EvictStore(4, order))

InitCrowded ==
    /\ \/ \E m \in 1..MaxStored : storage = TwoSessions(MaxStored, m, 5)
       \/ \E order \in 1..2 : storage = CrowdedStore(order)
    /\ InitRest

NextCrowded ==
    \/ \E md \in {UserText, BlankText} : NoneInFlight /\ HandleSaveMessage(1, md)
    \/ SaveSteps(1)
    \/ Tick

SpecCrowded == InitCrowded /\ [][NextCrowded]_vars

\* all the messages that getMessages returns for a session
Retrieved(st, sessionId) ==
    getMessagesFromSessionPaginated(st, sessionId, 0, MAX_MESSAGES_PER_SESSION,
                                    Epoch, 0).page.messages

\* C26: no step of a saveMessage handler changes the messages that
\* getMessages returns for a session other than the one of the request.
C26_SessionFrame ==
    [][\A p \in Procs :
          procs'[p] # procs[p] /\ procs[p].pc \notin {"idle", "done"}
            => \A k \in KeysWithPrefix(storage, "session") :
                  k.parts # procs[p].sessionId
                    => Retrieved(storage', k.parts) = Retrieved(storage, k.parts)]_vars

NonDecreasing(messages) ==
    \A i \in 1..(Len(messages) - 1) : Timestamp(messages[i]) <= Timestamp(messages[i + 1])

\* new is old without a prefix, followed by messages that old did not hold
AppendedOrTrimmed(old, new) ==
    \E d \in 0..Len(old) :
       LET kept == SubSeq(old, d + 1, Len(old))
       IN /\ Len(new) >= Len(kept)
          /\ SubSeq(new, 1, Len(kept)) = kept
          /\ \A i \in (Len(kept) + 1)..Len(new) : new[i] \notin Range(old)

\* C27: after every step each stored session's messages are in
\* non-decreasing order of timestamp, and a session's sequence differs from
\* the one before the step only by messages appended at the end or by a
\* prefix removed, also when saveMessage handlers interleave.
C27_Chronological ==
    [][\A k \in KeysWithPrefix(storage', "session") :
          /\ NonDecreasing(storage'[k].messages)
          /\ k \in DOMAIN storage
               => AppendedOrTrimmed(storage[k].messages, storage'[k].messages)]_vars

-----------------------------------------------------------------------------
(* SpecFailures: saveMessage and getMessages while reads and writes of the
   store fail *)

\* the catch of getMessagesFromSessionPaginated, entered when the read of
\* the session failed on every attempt; down: the store fails for the calls
\* that follow as well
getMessagesAfterReadFailure(st, sessionId, offset, limit, t, rand, down) ==
    LET st1 == logErrorOutcome(st, "get_messages_failed", t, rand, ErrorObject,
                               IF down THEN "write" ELSE "none").st
        backup == IF down THEN NoBackup ELSE restoreSessionFromBackup(st1, sessionId)
    IN IF backup.found /\ Truthy(backup.data) /\ Truthy(JsMessages(backup.data))
       THEN [page |-> paginateMessages(MessagesOf(backup.data), offset, limit),
             from |-> "backup", st |-> st1, used |-> 1]
       ELSE [page |-> EmptyPage, from |-> "none", st |-> st1, used |-> 1]

\* handleGetMessages for the current session, with the outcomes of the
\* attempts of getStorageWithRetry
GetMessagesWithRetry(outcomes, down) ==
    /\ opCount < MaxOps
    /\ CurrentSessionKey \in DOMAIN storage
    /\ opCount' = opCount + 1
    /\ LET sessionId == storage[CurrentSessionKey]
           read == getStorageWithRetry(outcomes)
           r == IF read.ok
                THEN getMessagesFromSessionPaginated(storage, sessionId, 0, DEFAULT_LIMIT,
                                                     now, nextRand)
                ELSE getMessagesAfterReadFailure(storage, sessionId, 0, DEFAULT_LIMIT,
                                                 now, nextRand, down)
       IN /\ storage' = r.st
          /\ nextRand' = nextRand + r.used
          /\ lastCall' = [NoCall EXCEPT
                             !.op = "getMessages", !.before = storage, !.after = r.st,
                             !.raised = ~read.ok,
                             !.result = [outcomes |-> outcomes, from |-> r.from,
                                         response |-> Ok([messages |-> r.page.messages,
                                                          sessionId |-> sessionId,
                                                          total |-> r.page.total,
                                                          hasMore |-> r.page.hasMore])]]
    /\ UNCHANGED <<now, procs, lastPage, callLog,
                   restored, backupCalls, candidate, verdict, evicted, loggedKeys, browser>>

\* the write of saveMessageToSession with the outcomes of the attempts of
\* setStorageWithRetry; when every attempt fails, the catch logs the error
\* and throws it on to handleSaveMessage, which answers with it
SaveWriteWithRetry(p, outcomes) ==
    /\ procs[p].pc = "write"
    /\ LET data == [k \in {SessionKey(procs[p].sessionId), CurrentSessionKey} |->
                      IF k = CurrentSessionKey THEN procs[p].sessionId
                      ELSE procs[p].sessionData]
           r == setStorageWithRetry(storage, data, outcomes, now)
           called == [i \in 1..r.cleanups |-> "performEmergencyCleanup"]
       IN /\ IF r.ok
             THEN /\ storage' = r.st
                  /\ SetProc(p, [procs[p] EXCEPT !.pc = "backup",
                                                 !.cleanups = @ \o called])
                  /\ UNCHANGED nextRand
             ELSE /\ storage' = logError(r.st, "save_message_failed", now, nextRand)
                  /\ nextRand' = nextRand + 1
                  /\ SetProc(p, [procs[p] EXCEPT !.pc = "done", !.response = "error",
                                                 !.cleanups = @ \o called])
          /\ lastCall' = [NoCall EXCEPT
                             !.op = "saveWrite", !.before = storage, !.after = r.st,
                             !.raised = ~r.ok,
                             !.result = [outcomes |-> outcomes, proc |-> p]]
    /\ UNCHANGED <<now, opCount, lastPage, callLog,
                   restored, backupCalls, candidate, verdict, evicted, loggedKeys, browser>>

InitFailures ==
    /\ \/ storage = InstalledStore
       \/ \E n \in 0..MaxStored : storage = StoreWith(S1, n, 5)
    /\ InitRest

NextFailures ==
    \/ NoneInFlight /\ HandleSaveMessage(1, UserText)
    \/ SaveCheckQuota(1)
    \/ SaveRead(1)
    \/ SaveCheckLimits(1)
    \/ \E outcomes \in WriteOutcomes : SaveWriteWithRetry(1, outcomes)
    \/ SaveBackupAndRespond(1)
    \/ \E outcomes \in ReadOutcomes, down \in BOOLEAN :
          NoneInFlight /\ GetMessagesWithRetry(outcomes, down)

SpecFailures == InitFailures /\ [][NextFailures]_vars

AllFailed(outcomes) == \A i \in 1..maxRetries : outcomes[i] # "ok"

\* C22: when the read of getMessages fails on every attempt, or the write
\* of saveMessage fails on every attempt, the response of the request is an
\* error response.
C22_FailurePropagates ==
    /\ (lastCall.op = "getMessages" /\ AllFailed(lastCall.result.outcomes))
         => ~lastCall.result.response.success
    /\ (lastCall.op = "saveWrite" /\ AllFailed(lastCall.result.outcomes)
        /\ procs[lastCall.result.proc].pc = "done")
         => procs[lastCall.result.proc].response = "error"

-----------------------------------------------------------------------------
(* SpecSidebar: the chat form of one sidebar (content.js) *)

maxlength == 2000
MaxTyped == 3

Text(len, ws) == [len |-> len, ws |-> ws]

\* content.js validateMessage; the text is a string in every call
validateMessage(text) ==
    IF text.len = 0 THEN FALSE
    ELSE IF text.len - text.ws = 0 THEN FALSE
    ELSE IF text.len - text.ws > maxlength THEN FALSE
    ELSE TRUE

updateSendButtonState(sb) ==
    LET hasContent == sb.input.len - sb.input.ws > 0
        isValid == validateMessage(sb.input)
    IN [sb EXCEPT !.disabled = ~(hasContent /\ isValid)]

clearMessageInput(sb) == updateSendButtonState([sb EXCEPT !.input = Text(0, 0)])

\* sendMessage up to its await: issued is whether a saveMessage request left
sendMessage(sb) ==
    LET message == Text(sb.input.len - sb.input.ws, 0)
    IN IF message.len = 0 \/ ~validateMessage(message)
       THEN [sb |-> sb, issued |-> FALSE]
       ELSE [sb |-> [clearMessageInput([sb EXCEPT !.disabled = TRUE,
                                                  !.label = "Sending...",
                                                  !.history = @ + 1])
                       EXCEPT !.pending = @ + 1],
             issued |-> TRUE]

\* sendMessage after its await: the catch and the finally
sendMessageSettled(sb, ok) ==
    updateSendButtonState([sb EXCEPT !.pending = @ - 1,
                                     !.errors = IF ok THEN @ ELSE @ + 1,
                                     !.disabled = FALSE, !.label = "Send"])

SidebarStep(op, arg, r) ==
    /\ SetBrowser("sidebar", r.sb)
    /\ lastCall' = [NoCall EXCEPT !.op = op, !.raised = FALSE,
                                  !.result = [arg |-> arg, issued |-> r.issued,
                                              pending |-> browser.sidebar.pending]]
    /\ opCount' = IF r.issued THEN opCount + 1 ELSE opCount
    /\ UNCHANGED <<storage, now, nextRand, procs, lastPage, callLog,
                   restored, backupCalls, candidate, verdict, evicted, loggedKeys>>

\* the 'input' listener: the user types, pastes or deletes
TypeText(text) ==
    /\ text # browser.sidebar.input
    /\ SidebarStep("input", text,
                   [sb |-> updateSendButtonState([browser.sidebar EXCEPT !.input = text]),
                    issued |-> FALSE])

\* the 'click' listener of the send button; a disabled button gets no click
ClickSend ==
    /\ ~browser.sidebar.disabled
    /\ opCount < MaxOps
    /\ SidebarStep("click", "send", sendMessage(browser.sidebar))

\* the two 'keydown' listeners of the input, in the order they were added
KeyDown(key, shift, ctrl) ==
    /\ opCount < MaxOps
    /\ LET sb == browser.sidebar
           first == IF key # "Enter" THEN [sb |-> sb, issued |-> FALSE]
                    ELSE IF shift THEN [sb |-> sb, issued |-> FALSE]
                    ELSE sendMessage(sb)
           second == IF key = "Enter" /\ ctrl THEN sendMessage(first.sb)
                     ELSE IF key = "Escape"
                          THEN [sb |-> clearMessageInput(first.sb), issued |-> FALSE]
                     ELSE [sb |-> first.sb, issued |-> FALSE]
           \* Shift+Enter alone: the line break is typed, then the timer of
           \* the first listener updates the button
           typed == IF key = "Enter" /\ shift /\ ~ctrl /\ sb.input.len < MaxTyped
                    THEN updateSendButtonState(
                             [second.sb EXCEPT !.input = Text(sb.input.len + 1,
                                                              sb.input.ws + 1)])
                    ELSE second.sb
       IN SidebarStep("keydown", <<key, shift, ctrl>>,
                      [sb |-> typed, issued |-> first.issued \/ second.issued])

\* the response of the service worker to a saveMessage request arrives
SaveSettled(ok) ==
    /\ browser.sidebar.pending > 0
    /\ SidebarStep("response", ok,
                   [sb |-> sendMessageSettled(browser.sidebar, ok), issued |-> FALSE])

InputTexts == {Text(0, 0), Text(2, 2), Text(2, 0), Text(3, 1), Text(maxlength, 0)}

InitSidebar ==
    /\ storage = InstalledStore
    /\ InitWorker
    /\ browser = NoBrowser

NextSidebar ==
    \/ \E text \in InputTexts : TypeText(text)
    \/ ClickSend
    \/ \E key \in {"Enter", "Escape"}, shift \in BOOLEAN, ctrl \in BOOLEAN :
          KeyDown(key, shift, ctrl)
    \/ \E ok \in BOOLEAN : SaveSettled(ok)

SpecSidebar == InitSidebar /\ [][NextSidebar]_vars

\* C30: within one sidebar at most one saveMessage request is in flight at
\* any time: between a send and its response no click, Enter, Ctrl/Cmd+Enter
\* or typing issues a second request.
C30_OneInFlight == browser.sidebar.pending <= 1

-----------------------------------------------------------------------------
(* SpecInterval: saveMessage around the multiples of BACKUP_INTERVAL *)

\* a session after saved messages were saved to it, one per millisecond, of
\* which it still holds the last kept; message number i carries the id -i
SavedSession(sessionId, saved, kept, len) ==
    [id |-> sessionId,
     messages |-> [i \in 1..kept |-> StoredMessage(saved - kept + i, Epoch - kept + i, len)],
     createdAt |-> Epoch - saved,
     lastActivity |-> Epoch]

\* the store after n saves to a new session, n below the message limit, with
\* the backup of the last multiple of BACKUP_INTERVAL
IntervalStore(sessionId, n) ==
    LET last == (n \div BACKUP_INTERVAL) * BACKUP_INTERVAL
        st == StoreWith(sessionId, n, 5)
    IN IF last = 0 THEN st
       ELSE createSessionBackup(st, sessionId, SavedSession(sessionId, last, last, 5),
                                Epoch - (n - last))

\* the store after saved saves to a session, saved above the message limit by
\* less than BACKUP_INTERVAL: save number MAX_MESSAGES_PER_SESSION + 1 made a
\* backup, cut the session to messagesToKeep and made a backup of the rest
TrimmedStore(sessionId, saved) ==
    LET over == MAX_MESSAGES_PER_SESSION + 1
        kept == messagesToKeep + (saved - over)
        st0 == StorageSet(StorageSet(EmptyStore, CurrentSessionKey, sessionId),
                          SessionKey(sessionId), SavedSession(sessionId, saved, kept, 5))
        st1 == createSessionBackup(st0, sessionId, SavedSession(sessionId, over, over, 5),
                                   Epoch - (saved - over) - 1)
    IN createSessionBackup(st1, sessionId,
                           SavedSession(sessionId, over, messagesToKeep, 5),
                           Epoch - (saved - over))

InitInterval ==
    /\ \/ \E n \in {BACKUP_INTERVAL - 2, BACKUP_INTERVAL - 1,
                    2 * BACKUP_INTERVAL - 1} : storage = IntervalStore(S1, n)
       \/ storage = TrimmedStore(S1, MAX_MESSAGES_PER_SESSION + BACKUP_INTERVAL - 1)
    /\ InitRest

NextInterval ==
    \/ \E md \in {UserText, BlankText} : NoneInFlight /\ HandleSaveMessage(1, md)
    \/ SaveSteps(1)
    \/ Tick

SpecInterval == InitInterval /\ [][NextInterval]_vars

\* the number of successful saves to the session so far: those before the
\* start, read off the ids of the stored messages, and those since
SavesOn(st, sessionId) ==
    LET messages == StoredMessages(st, sessionId)
        before == {0 - messages[i].id.v : i \in 1..Len(messages)}
        top == CHOOSE n \in before \cup {0} : \A m \in before : m <= n
    IN top + Len(callLog)

\* a backup of the session in st holds every message the session holds
BackupHoldsAll(st, sessionId) ==
    \E k \in BackupsOf(st, sessionId) :
        Range(Essentials(StoredMessages(st, sessionId))) \subseteq
            Range(Essentials(MessagesOf(st[k])))

\* C31: once the (50*k)-th successful saveMessage on a session has completed,
\* a backup of that session exists that contains all messages the session
\* held at that point.
C31_BackupEvery50 ==
    \A p \in Procs :
        (Succeeded(p) /\ SavesOn(storage, procs[p].sessionId) % BACKUP_INTERVAL = 0)
        => BackupHoldsAll(storage, procs[p].sessionId)

-----------------------------------------------------------------------------
(* SpecDormant: the sidebar is opened again more than thirty days after the
   last message of the current session *)

Dormant == Epoch + THIRTY_DAYS + 1

\* the current session of BACKUP_INTERVAL messages and the backup that the
\* last save made
DormantStore ==
    createSessionBackup(StoreWith(S1, BACKUP_INTERVAL, 5), S1,
                        StoredSession(S1, BACKUP_INTERVAL, 5), Epoch)

\* chrome.runtime.onStartup: the cleanups that run when the browser starts
OnStartup ==
    /\ lastCall.op = "none"
    /\ NoneInFlight
    /\ storage' = cleanupTabStates(performMaintenanceCleanup(storage, now), OpenTabs)
    /\ lastCall' = [NoCall EXCEPT !.op = "onStartup", !.before = storage,
                                  !.after = storage']
    /\ UNCHANGED <<now, nextRand, procs, opCount, lastPage, callLog,
                   restored, backupCalls, candidate, verdict, evicted, loggedKeys, browser>>

InitDormant ==
    /\ \/ storage = DormantStore
       \/ \E n \in 0..MaxStored : storage = StoreWith(S1, n, 5)
    /\ now = Dormant
    /\ WorkerIdle
    /\ browser = NoBrowser

NextDormant ==
    \/ OnStartup
    \/ \E md \in {UserText, BlankText} : NoneInFlight /\ HandleSaveMessage(1, md)
    \/ SaveSteps(1)
    \/ NoneInFlight /\ GetMessages

SpecDormant == InitDormant /\ [][NextDormant]_vars

\* the handler neither trimmed the session nor called a cleanup
NoTrimOrCleanup(proc) ==
    /\ proc.cleanups = <<>>
    /\ Len(proc.sessionData.messages) = proc.loadedLen + 1

\* lastPage is a whole getMessages result for the session of the handler's
\* request, taken before the handler wrote: the record it found is the one
\* the handler found, and is not the one stored now
ReadBeforeSave(page, proc, st) ==
    /\ page.sessionId = proc.sessionId
    /\ page.offset = 0 /\ page.total <= page.limit
    /\ page.source = StoredMessages(proc.pre, proc.sessionId)
    /\ page.source # StoredMessages(st, proc.sessionId)

\* C32: when getMessages returned messages for a session, from its record or
\* from a backup, and a saveMessage on the session then succeeded without
\* any trim or cleanup, the next getMessages returns all of those messages
\* and the saved one.
C32_MonotonicReads ==
    [][\A p \in Procs :
          (/\ Succeeded(p) /\ NoTrimOrCleanup(procs[p])
           /\ procs' = procs /\ opCount' = opCount + 1
           /\ ReadBeforeSave(lastPage, procs[p], storage)
           /\ lastPage'.sessionId = lastPage.sessionId
           /\ lastPage'.offset = 0 /\ lastPage'.total <= lastPage'.limit)
             => Range(IdsOf(lastPage.messages)) \cup {procs[p].message.id.v}
                  \subseteq Range(IdsOf(lastPage'.messages))]_vars

-----------------------------------------------------------------------------
(* SpecPrune: backups of two sessions, the periodic backup cleanup and the
   cleanupStorage request *)

\* the setInterval callback that cleans up old backups
PeriodicBackupCleanup ==
    /\ opCount < MaxOps
    /\ opCount' = opCount + 1
    /\ LET groups == {BackupGroup(k) : k \in KeysWithPrefix(storage, "backup")}
       IN storage' = CleanupBackupGroups(storage, groups)
    /\ lastCall' = [NoCall EXCEPT !.op = "backupCleanup", !.before = storage,
                                  !.after = storage']
    /\ UNCHANGED <<now, nextRand, procs, lastPage, callLog,
                   restored, backupCalls, candidate, verdict, evicted, loggedKeys, browser>>

NextPrune ==
    \/ \E sid \in {S1, S2} : CreateBackup(sid, BackupData(sid, Len(backupCalls)))
    \/ PeriodicBackupCleanup
    \/ \E failure \in {"none", "first"} :
          OnMessage([action |-> "cleanupStorage", tabId |-> 1], failure)
    \/ Advance(MaxBackupTicks)

SpecPrune == InitBackup /\ [][NextPrune]_vars

\* the most recent min(3, n) of the n backups of the session in st
MostRecentBackups(st, sessionId) ==
    LET backups == BackupsOf(st, sessionId)
    IN {k \in backups : BackupRank(backups, k) < MAX_BACKUPS}

\* the step is a run of the periodic backup cleanup or a cleanupStorage request
PrunesBackups ==
    /\ lastCall' # lastCall
    /\ \/ lastCall'.op = "backupCleanup"
       \/ /\ lastCall'.op = "request"
          /\ ActionOf(lastCall'.result.message) = "cleanupStorage"

\* C33: the periodic backup cleanup and the cleanupStorage request leave
\* every session with exactly its min(3, n) most recent backups, whatever
\* backups other sessions have; a session of at most 3 backups loses none.
C33_PrunePerSession ==
    [][PrunesBackups =>
          \A sid \in {S1, S2} :
             BackupsOf(storage', sid) = MostRecentBackups(storage, sid)]_vars

-----------------------------------------------------------------------------
(* The tab-state sweep and live tabs (SpecSweep) *)

\* the tabs whose state the last sweep removed
SweptTabs ==
    {k.parts[1] : k \in KeysWithPrefix(lastCall.before, "tabState") \ DOMAIN lastCall.after}

\* C34: the tab-state sweep removes no tab state of a tab that is live when
\* the removal happens, also when the tab was created and stored its state
\* after the sweep's query of the live tabs.
C34_SweepSparesLiveTabs ==
    lastCall.op = "cleanupTabStates" => SweptTabs \cap lastCall.result.live = {}

-----------------------------------------------------------------------------
(* Emergency cleanup inside a save (SpecLimits) *)

\* the handler called performEmergencyCleanup after it had loaded the session
CleanedAfterLoad(proc) ==
    \E i \in 2..Len(proc.cleanups) :
       /\ proc.cleanups[i] = "performEmergencyCleanup"
       /\ proc.cleanups[i - 1] = "cleanupOldSessions"

\* C35: when emergency cleanup ran during a saveMessage after the session
\* was loaded, the record that the save persists holds at most the 100 most
\* recent messages the session held before and the new one.
C35_TruncationPersists ==
    \A p \in Procs :
        (Succeeded(p) /\ CleanedAfterLoad(procs[p]))
        => LET stored == StoredMessages(storage, procs[p].sessionId)
               before == StoredMessages(procs[p].pre, procs[p].sessionId)
           IN /\ Len(stored) <= EMERGENCY_MESSAGES + 1
              /\ Range(stored) \subseteq
                    Range(SliceLast(before, EMERGENCY_MESSAGES)) \cup {procs[p].message}

-----------------------------------------------------------------------------
(* Recovery and the valid messages of the corrupted record (SpecRecover) *)

\* the ids of the messages that pass validateMessageData
ValidIds(messages) ==
    {Field(messages[i], "id") : i \in {j \in 1..Len(messages) :
                                          validateMessageData(messages[j])}}

\* C36: when getMessages finds a corrupted session record and recovers it,
\* every message of the record that passes validateMessageData is in the
\* session that is returned and in the session that is stored, with or
\* without a backup of the session.
C36_RecoveryKeepsValid ==
    [][(opCount' # opCount /\ lastPage' # lastPage /\ lastPage'.from = "recovered"
        /\ lastPage'.offset = 0 /\ lastPage'.limit = DEFAULT_LIMIT)
         => /\ ValidIds(lastPage'.source) \subseteq ValidIds(lastPage'.messages)
            /\ ValidIds(lastPage'.source)
                 \subseteq ValidIds(MessagesOf(storage'[SessionKey(lastPage'.sessionId)]))]_vars

-----------------------------------------------------------------------------
(* SpecImport: exportData and importData requests.  The files are exports of
   this program's stores and one file edited by hand. *)

\* the installed store with a second session whose middle message has lost
\* its content
DamagedStore ==
    StorageSet(InstalledStore, SessionKey(S2),
               [id |-> S2, messages |-> MixedMessages, createdAt |-> Epoch - 5,
                lastActivity |-> Epoch - 3])

\* a file whose maps name keys of other kinds
EditedFile ==
    [exportedAt |-> Epoch - 3,
     sessions |-> [k \in {BackupKey(S1, Epoch - 1), SessionKey(S2)} |->
                     StoredSession(S2, 1, 5)],
     settings |-> [k \in {TabStateKey(1), SessionKey(S1)} |->
                     IF k = TabStateKey(1) THEN [visible |-> TRUE, lastUpdate |-> Epoch - 3]
                     ELSE CorruptSession(Str(14, 0), Undef, Num(Epoch - 5), Num(Epoch - 4))]]

ImportFiles ==
    {exportAllUserData(InstalledStore, Epoch - 3),
     exportAllUserData(DamagedStore, Epoch - 3),
     exportAllUserData(StoreWith(S2, 1, 5), Epoch - 3),
     EditedFile}

InitImport ==
    /\ \/ storage = InstalledStore
       \/ \E n \in 0..MaxStored : storage = StoreWith(S1, n, 5)
    /\ InitRest

NextImport ==
    \/ \E file \in ImportFiles \cup ImportPayloads, failure \in {"none", "first", "second"} :
          OnMessage([action |-> "importData", tabId |-> 1, data |-> file], failure)
    \/ \E failure \in {"none", "first"} :
          OnMessage([action |-> "exportData", tabId |-> 1], failure)
    \/ Tick

SpecImport == InitImport /\ [][NextImport]_vars

\* the last request was an importData request that was answered with success
Imported ==
    /\ lastCall.op = "request"
    /\ ActionOf(lastCall.result.message) = "importData"
    /\ lastCall.result.responses[1].success

\* the keys that the last call created or gave another value
WrittenKeys ==
    {k \in DOMAIN lastCall.after :
        k \notin DOMAIN lastCall.before \/ lastCall.after[k] # lastCall.before[k]}

\* the sessions of a file that importUserData writes
SessionsToWrite(file) ==
    {k \in DOMAIN file.sessions : validateSessionData(file.sessions[k])}

\* C37: a successful importData writes only session records that pass
\* validateSessionData, under session keys, the keys settings, currentSession
\* and sidebarVisible, and its snapshot of the store before the import; and
\* importedSessions is the number of sessions it wrote.
C37_ImportFrame ==
    Imported =>
        /\ \A k \in WrittenKeys :
              IF k.p = "session" THEN validateSessionData(lastCall.after[k])
              ELSE k \in SettingKeys \/ k.p = "import_backup"
        /\ lastCall.result.responses[1].data.importedSessions
             = Cardinality(SessionsToWrite(DataOf(lastCall.result.message)))


-----------------------------------------------------------------------------
(* SpecUsage: saves whose getBytesInUse queries may raise.  The stores are
   far below the quota: five small sessions with error logs and tab states, a
   session of 150 messages, and the installed store. *)

\* checkStorageQuota(...).hasSpace, with the answer of its catch block when
\* getBytesInUse raises
hasSpace(st, raises) == IF raises THEN FALSE ELSE checkStorageQuota(st)

\* the quota check at the head of saveMessageToSession; raises tells which of
\* its two getBytesInUse queries raise
SaveCheckQuotaUsage(p, raises) ==
    /\ procs[p].pc = "quota"
    /\ IF hasSpace(storage, raises[1])
       THEN /\ SetProc(p, [procs[p] EXCEPT !.pc = "read"])
            /\ UNCHANGED <<storage, nextRand>>
       ELSE LET cleaned == performEmergencyCleanup(storage, now)
            IN IF hasSpace(cleaned, raises[2])
               THEN /\ storage' = cleaned
                    /\ SetProc(p, [procs[p] EXCEPT
                                      !.pc = "read",
                                      !.cleanups = Append(@, "performEmergencyCleanup")])
                    /\ UNCHANGED nextRand
               ELSE /\ storage' = logError(cleaned, "save_message_failed", now, nextRand)
                    /\ nextRand' = nextRand + 1
                    /\ SetProc(p, [procs[p] EXCEPT
                                      !.pc = "done", !.response = "error",
                                      !.cleanups = Append(@, "performEmergencyCleanup")])
    /\ lastCall' = [NoCall EXCEPT !.op = "usage", !.before = storage, !.after = storage',
                                  !.result = raises]
    /\ UNCHANGED <<now, opCount, lastPage, callLog,
                   restored, backupCalls, candidate, verdict, evicted, loggedKeys, browser>>

InitUsage ==
    /\ \/ \E order \in 1..3 : storage = WithLogsAndTabs(EvictStore(5, order))
       \/ storage = WithLogsAndTabs(StoreWith(S1, 3 * BACKUP_INTERVAL, 5))
       \/ storage = InstalledStore
    /\ InitRest

NextUsage ==
    \/ \E md \in {UserText, BlankText} : NoneInFlight /\ HandleSaveMessage(1, md)
    \/ \E first, second \in BOOLEAN : SaveCheckQuotaUsage(1, <<first, second>>)
    \/ SaveRead(1)
    \/ SaveCheckLimits(1)
    \/ SaveWrite(1)
    \/ SaveBackupAndRespond(1)
    \/ Tick

SpecUsage == InitUsage /\ [][NextUsage]_vars

\* the quota check of the save in hand, or of the last save, had a
\* getBytesInUse query that raised, on a store below the quota
UsageQueryFailed ==
    /\ lastCall.op = "usage"
    /\ lastCall.result[1]
    /\ checkStorageQuota(lastCall.before)

\* every session, message, tab state and error log of st1 is in st2
KeepsStoredData(st1, st2) ==
    \A k \in DOMAIN st1 :
        k.p \in {"session", "tabState", "error"} =>
            /\ k \in DOMAIN st2
            /\ k.p = "session" =>
                  Range(IdsOf(st1[k].messages)) \subseteq Range(IdsOf(st2[k].messages))

\* C38: a save whose getBytesInUse query raises removes no session, no
\* message, no tab state and no error log from the store.
C38_UsageFailureKeepsData ==
    UsageQueryFailed => KeepsStoredData(lastCall.before, storage)

====
